---------------------------- MODULE Spec2Model ----------------------------
(***************************************************************************)
(* State-machine model of the IEC 60870-5-104 slave of lib60870-C          *)
(* (src/lib60870-C/src/iec60870/cs104/cs104_slave.c).                      *)
(*                                                                         *)
(* Pointers into a queue's byte buffer are modelled as byte offsets from   *)
(* the buffer start, NULL as -1.  A queue's memory is the partial map      *)
(* `buffer` from the offsets at which an intact entry header is stored to  *)
(* that header; reading a header from any other offset yields the          *)
(* arbitrary header `g` that the reading action draws.                     *)
(***************************************************************************)
EXTENDS Integers, Sequences, FiniteSets, TLC

(***************************************************************************)
(* Program constants                                                       *)
(***************************************************************************)
NULL == -1

\* sequence numbers are 15 bit: (sendCount + 1) % 32768
SeqModulus == 32768

\* sizeof(struct sMessageQueueEntryInfo): uint64_t + two bit fields, padded
HeaderSize == 16

\* bytes reserved per queue slot beside the header
SlotSize == 256

\* IEC60870_5_104_APCI_LENGTH
ApciLength == 6

\* defaultConnectionParameters.k
DefaultK == 12

\* sizeof(uint16_t): the size field in front of a high-priority queue entry
HighHeaderSize == 2

\* the value of oldestSentASDU / newestSentASDU when the k-buffer is empty
NoIndex == -1

\* defaultConnectionParameters: w, t1, t2, t3 (seconds)
DefaultW == 8

DefaultT1 == 15

DefaultT2 == 10

DefaultT3 == 20

\* UINT64_MAX, the value MasterConnection_init gives lastConfirmationTime;
\* the largest time value of the model stands for it
UINT64_MAX == 2147483647

\* defaultConnectionParameters
DefaultParameters ==
    [ k |-> DefaultK, w |-> DefaultW, t1 |-> DefaultT1, t2 |-> DefaultT2,
      t3 |-> DefaultT3 ]

\* CS104_ServerMode
SINGLE_REDUNDANCY_GROUP == "SINGLE_REDUNDANCY_GROUP"
CONNECTION_IS_REDUNDANCY_GROUP == "CONNECTION_IS_REDUNDANCY_GROUP"
MULTIPLE_REDUNDANCY_GROUPS == "MULTIPLE_REDUNDANCY_GROUPS"

\* QueueEntryState
NOT_USED_OR_CONFIRMED == "NOT_USED_OR_CONFIRMED"
WAITING_FOR_TRANSMISSION == "WAITING_FOR_TRANSMISSION"
SENT_BUT_NOT_CONFIRMED == "SENT_BUT_NOT_CONFIRMED"
QueueEntryState ==
    {NOT_USED_OR_CONFIRMED, WAITING_FOR_TRANSMISSION, SENT_BUT_NOT_CONFIRMED}

(***************************************************************************)
(* Bounds of the model                                                     *)
(***************************************************************************)
\* maxQueueSize handed to MessageQueue_initialize (number of slots)
MaxQueueSize == 1

\* number of CS104_Slave_enqueueASDU calls explored
MaxEnqueue == 4

\* largest clock value explored
MaxTime == 2

\* encoded ASDU sizes explored by the queue specification
AsduSizes == {1, 120, 250}

\* encoded ASDU sizes explored with connections
SlaveAsduSizes == {120, 250}

\* payload identity of bytes that are no intact encoded ASDU
Garbled == NULL

\* payload identity of an ASDU a handler sends as a response (the ASDUs
\* handed to CS104_Slave_enqueueASDU are numbered 1, 2, ...)
ResponseAsdu == 0

\* CONFIG_CS104_MAX_CLIENT_CONNECTIONS of the explored build
MaxClientConnections == 2

\* largest sendCount after the wrap with which checkSequenceNumber is examined
MaxSeqSendCount == 13

\* number of connections accepted
MaxAccept == 2

\* number of CS104_Slave_enqueueASDU calls explored with connections
MaxSlaveEnqueue == 3

\* maxHighPrioQueueSize handed to CS104_Slave_create
MaxHighQueueSize == 1

\* number of sendASDU calls explored
MaxSend == 13

\* number of CS104_Slave_enqueueASDU calls explored while one connection's
\* window is examined
MaxWinEnqueue == 1

\* encoded size of the ASDUs handlers send as responses
ResponseSizes == {120}

\* number of HighPriorityASDUQueue_enqueue calls explored on one queue
MaxHighEnqueue == 7

\* I-frames a connection receives in a session
MaxRecv == 9

\* ASDUs the application enqueues while frames are received
MaxRecvEnqueue == 1

\* I-frames a connection writes while frames are received
MaxRecvSend == 1

\* Hal_getTimeInMs() advances in steps of TickMs up to MaxClock
TickMs == 5000
MaxClock == 100000
MaxT1Clock == 30000
MaxT2Clock == 30000

\* I-frames a connection receives while the clock runs
MaxTimedRecv == 2

\* ASDUs the application enqueues on an activated connection
MaxLiveEnqueue == 3

\* ASDUs the application enqueues while two masters compete
MaxRaceEnqueue == 2

\* I-frames written while two masters compete
MaxRaceSend == 3

\* ASDUs the application enqueues while the server modes are compared
MaxModeEnqueue == 2

\* the allowed clients of a redundancy group
MaxAllowedClients == 2

\* ASDUs the application enqueues while connections are stopped and started
MaxStopEnqueue == 2

\* ASDUs the application enqueues while connections are opened and closed
MaxLifeEnqueue == 1

\* I-frames a connection receives while connections are opened and closed
MaxLifeRecv == 1

\* the largest length byte a peer sends and the number of bytes it sends in
\* the runs of receiveMessage
MaxRxLength == 2

MaxRxBytes == 5

\* the clock's limit and the I-frames received (and answered), in
\* the runs in which the clock is set back
MaxStepClock == 15000

MaxStepRecv == 1

\* the runs of sendWaitingASDUs: the k of the connection, the
\* maxHighPrioQueueSize of the slave, the ASDUs the application enqueues, the
\* I-frames the connection receives and the I-frames it writes
DrainK == 3

DrainHighQueueSize == 2

MaxDrainEnqueue == 2

MaxDrainRecv == 4

MaxDrainSend == 6

\* the lowest value handed to CS104_Slave_setMaxOpenConnections is
\* -MinMaxOpen
MinMaxOpen == 1

\* the octets the peer sends and the clock's limit while short frames are
\* received
MaxLenBytes == 12

MaxLenClock == 10000

\* the Semaphore_wait and Semaphore_post calls of one function call of a
\* thread where the scheduling is fair
MaxFairPath == 8

\* the I-frames received and the I-frames sent while a second peer connects
MaxShareRecv == 4

MaxShareSend == 5

\* high-priority ASDUs one call of sendWaitingASDUs sends
MaxHighSends == 1

\* k-buffer entries one call of checkSequenceNumber confirms in the queue
MaxConfirmed == 2

\* encoded ASDU sizes explored on one HighPriorityASDUQueue
HighAsduSizes == {10, 50, 100, 250}

\* values the application writes to conParameters.k through
\* CS104_Slave_getConnectionParameters
Ks == {2, DefaultK}

\* sendCount values with which checkSequenceNumber is examined
SeqSendCounts == 0 .. MaxSeqSendCount \cup {SeqModulus - 1}

\* sendCount values at which the examination of one connection starts
SendCountStarts == {SeqModulus - 3}

(***************************************************************************)
(* State                                                                   *)
(***************************************************************************)
VARIABLES
    now,        \* Hal_getTimeInMs()
    lowQ,       \* struct sMessageQueue, one per queue id
    enqLog,     \* history: per queue, the ASDUs handed to MessageQueue_enqueueASDU
    held,       \* handles (queueEntry, entryTime) a k-buffer holds for the queue
    lastOp,     \* history: the last operation, its arguments and result
    fault,      \* a scan has left the queue's buffer or does not terminate
    serverMode,     \* CS104_Slave.serverMode
    conParameters,  \* CS104_Slave.conParameters
    conns,      \* CS104_Slave.masterConnections[]: struct sMasterConnection
    highQ,      \* struct sHighPriorityASDUQueue, one per queue id
    pc,         \* per connection: where its worker stands in CS104_Slave_activate
    wire,       \* history: per connection, the low-queue I-frames written to
                \* its socket in the session
    txCount,    \* history: per connection, the I-frames written to its socket
    lastFrame,  \* history: per connection, the last I-frame written to its socket
    handoff,    \* history: the unacknowledged entry an active connection left
    everSent,   \* history: number of sendASDU calls
    accepted,   \* history: number of connections accepted
    highLog,    \* history: the ASDUs HighPriorityASDUQueue_enqueue accepted and
                \* those HighPriorityASDUQueue_getNextASDU returned
    ctl,        \* history: per connection, the control frames (S and U format)
                \* written to its socket in the session
    dispatched, \* history: per connection, the ASDUs given to handleASDU
    locks,      \* per thread: the semaphores it holds, in the order taken, and
                \* the waits and posts left in the function it is executing
    slave,      \* CS104_Slave: openConnections, redundancyGroups, isRunning,
                \* stopRunning, isThreadlessMode, and where the thread of the
                \* application is (caller: "application", or in
                \* "CS104_Slave_stop" / "CS104_Slave_destroy", or "stopped" /
                \* "destroyed" after they returned)
    rx          \* per connection: recvBuffer, recvBufPos and the bytes its
                \* socket holds for the next reads

qvars == <<now, lowQ, enqLog, held, lastOp, fault>>

svars == <<serverMode, conParameters, conns, highQ, pc, wire, txCount,
           lastFrame, handoff, everSent, accepted>>

xvars == <<highLog, ctl, dispatched>>

vars == <<qvars, svars, xvars, locks, slave, rx>>

\* queue ids: the single redundancy group's queues are 1; in mode
\* MULTIPLE_REDUNDANCY_GROUPS redundancy group i owns the queues i
QueueIds == 1 .. 2

\* masterConnections[] indices
ConnIds == 1 .. MaxClientConnections

(***************************************************************************)
(* MessageQueue                                                            *)
(***************************************************************************)
\* MessageQueue_initialize: calloc'ed buffer of maxQueueSize slots, no entries
MessageQueue_initialize(maxQueueSize) ==
    [ size              |-> maxQueueSize * (HeaderSize + SlotSize),
      entryCounter      |-> 0,
      firstEntry        |-> NULL,
      lastEntry         |-> NULL,
      lastInBufferEntry |-> NULL,
      oldestTimestamp   |-> 0,
      buffer            |-> [ o \in {} |-> 0 ] ]

\* the headers a read of bytes that hold no intact header can produce
GarbageHeaders ==
    [ entryTimestamp : {0},
      entryState     : QueueEntryState,
      size           : {0, 250},
      asdu           : {Garbled} ]

\* memcpy(&entryInfo, ptr, sizeof(struct sMessageQueueEntryInfo))
ReadEntryInfo(q, ptr, g) ==
    IF ptr \in DOMAIN q.buffer THEN q.buffer[ptr] ELSE g

\* memcpy(nextMsgPtr, &entryInfo, ...) and CS101_ASDU_encode behind it: the
\* bytes [ptr, ptr + entrySize) are overwritten.  Headers that overlap them
\* are lost, payloads that overlap them are garbled.
WriteEntry(buffer, ptr, entryInfo) ==
    LET entrySize == HeaderSize + entryInfo.size
        intact == { o \in DOMAIN buffer :
                      o + HeaderSize <= ptr \/ o >= ptr + entrySize }
    IN  [ o \in intact \cup {ptr} |->
            IF o = ptr THEN entryInfo
            ELSE IF o < ptr /\ o + HeaderSize + buffer[o].size > ptr
                 THEN [ buffer[o] EXCEPT !.asdu = Garbled ]
                 ELSE buffer[o] ]

\* memcpy(entryPtr, &entryInfo, sizeof(struct sMessageQueueEntryInfo)): the
\* header bytes [ptr, ptr + HeaderSize) are overwritten
WriteHeader(buffer, ptr, entryInfo) ==
    IF ptr \in DOMAIN buffer
    THEN [ buffer EXCEPT ![ptr] = entryInfo ]
    ELSE LET intact == { o \in DOMAIN buffer :
                           o + HeaderSize <= ptr \/ o >= ptr + HeaderSize }
         IN  [ o \in intact \cup {ptr} |->
                 IF o = ptr THEN entryInfo
                 ELSE IF o < ptr /\ o + HeaderSize + buffer[o].size > ptr
                      THEN [ buffer[o] EXCEPT !.asdu = Garbled ]
                      ELSE buffer[o] ]

\* the while loop of MessageQueue_enqueueASDU that removes old entries
\* (the one-element sets bind each iteration's state to its value)
RECURSIVE RemoveOldEntries(_, _, _, _, _)
RemoveOldEntries(q, nextMsgPtr, entrySize, currentTimestamp, g) ==
    IF ~(nextMsgPtr + entrySize > q.firstEntry /\ q.entryCounter > 0)
    THEN q
    ELSE IF q.firstEntry # q.lastEntry
         THEN IF q.firstEntry # q.lastInBufferEntry
              THEN CHOOSE r \in
                     { RemoveOldEntries(qq, nextMsgPtr, entrySize, currentTimestamp, g) :
                         qq \in { [ q EXCEPT
                                      !.firstEntry = q.firstEntry + HeaderSize
                                          + ReadEntryInfo(q, q.firstEntry, g).size,
                                      !.entryCounter = q.entryCounter - 1 ] } } : TRUE
              ELSE \* break
                   [ q EXCEPT
                       !.firstEntry = 0,
                       !.oldestTimestamp = ReadEntryInfo(q, 0, g).entryTimestamp,
                       !.entryCounter = q.entryCounter - 1 ]
         ELSE CHOOSE r \in
                { RemoveOldEntries(qq, nextMsgPtr, entrySize, currentTimestamp, g) :
                    qq \in { [ q EXCEPT
                                 !.firstEntry = nextMsgPtr,
                                 !.oldestTimestamp = currentTimestamp,
                                 !.lastInBufferEntry = nextMsgPtr,
                                 !.entryCounter = 0 ] } } : TRUE

\* MessageQueue_enqueueASDU that removes no old entry when the new entry
\* starts exactly at the first entry
Mut_MessageQueue_enqueueASDU(q, asdu, asduSize, currentTimestamp, g) ==
    IF asduSize > SlotSize - ApciLength
    THEN q
    ELSE
      LET entrySize == HeaderSize + asduSize
          q1 == IF q.entryCounter = 0
                THEN [ q EXCEPT !.firstEntry = 0,
                                !.oldestTimestamp = currentTimestamp,
                                !.lastInBufferEntry = 0 ]
                ELSE q
          afterLast == IF q.entryCounter = 0
                       THEN 0
                       ELSE q.lastEntry + HeaderSize
                              + ReadEntryInfo(q, q.lastEntry, g).size
          wraps == afterLast + entrySize > q.size
          nextMsgPtr == IF wraps THEN 0 ELSE afterLast
          q2 == IF wraps
                THEN [ q1 EXCEPT !.lastInBufferEntry = q1.lastEntry ]
                ELSE q1
          q3 == IF q2.entryCounter > 0
                THEN IF nextMsgPtr < q2.firstEntry
                     THEN RemoveOldEntries(q2, nextMsgPtr, entrySize,
                                           currentTimestamp, g)
                     ELSE [ q2 EXCEPT !.lastInBufferEntry = nextMsgPtr ]
                ELSE q2
          entryInfo == [ entryTimestamp |-> currentTimestamp,
                         entryState     |-> WAITING_FOR_TRANSMISSION,
                         size           |-> asduSize,
                         asdu           |-> asdu ]
      IN  [ q3 EXCEPT !.lastEntry = nextMsgPtr,
                      !.entryCounter = q3.entryCounter + 1,
                      !.buffer = WriteEntry(q3.buffer, nextMsgPtr, entryInfo) ]

\* MessageQueue_enqueueASDU
MessageQueue_enqueueASDU(q, asdu, asduSize, currentTimestamp, g) ==
    IF asduSize > SlotSize - ApciLength
    THEN q
    ELSE
      LET entrySize == HeaderSize + asduSize
          q1 == IF q.entryCounter = 0
                THEN [ q EXCEPT !.firstEntry = 0,
                                !.oldestTimestamp = currentTimestamp,
                                !.lastInBufferEntry = 0 ]
                ELSE q
          afterLast == IF q.entryCounter = 0
                       THEN 0
                       ELSE q.lastEntry + HeaderSize
                              + ReadEntryInfo(q, q.lastEntry, g).size
          wraps == afterLast + entrySize > q.size
          nextMsgPtr == IF wraps THEN 0 ELSE afterLast
          q2 == IF wraps
                THEN [ q1 EXCEPT !.lastInBufferEntry = q1.lastEntry ]
                ELSE q1
          q3 == IF q2.entryCounter > 0
                THEN IF nextMsgPtr <= q2.firstEntry
                     THEN RemoveOldEntries(q2, nextMsgPtr, entrySize,
                                           currentTimestamp, g)
                     ELSE [ q2 EXCEPT !.lastInBufferEntry = nextMsgPtr ]
                ELSE q2
          entryInfo == [ entryTimestamp |-> currentTimestamp,
                         entryState     |-> WAITING_FOR_TRANSMISSION,
                         size           |-> asduSize,
                         asdu           |-> asdu ]
      IN  [ q3 EXCEPT !.lastEntry = nextMsgPtr,
                      !.entryCounter = q3.entryCounter + 1,
                      !.buffer = WriteEntry(q3.buffer, nextMsgPtr, entryInfo) ]

\* the entry after entryPtr in a scan: "move to next entry"
NextEntryPtr(q, entryPtr, g) ==
    IF entryPtr = q.lastInBufferEntry
    THEN 0
    ELSE entryPtr + HeaderSize + ReadEntryInfo(q, entryPtr, g).size

\* the number of scan steps after which a scan is known to cycle
ScanLimit(q) == q.size \div HeaderSize + 1

\* the while loop of MessageQueue_getNextWaitingASDU: the entry at which it
\* stops, or NULL when the scan leaves the buffer or cycles
RECURSIVE FindWaiting(_, _, _, _)
FindWaiting(q, entryPtr, g, fuel) ==
    IF ReadEntryInfo(q, entryPtr, g).entryState = WAITING_FOR_TRANSMISSION
    THEN entryPtr
    ELSE IF entryPtr = q.lastEntry
         THEN entryPtr
         ELSE CHOOSE r \in
                { IF fuel = 0 \/ nxt + HeaderSize > q.size
                  THEN NULL
                  ELSE FindWaiting(q, nxt, g, fuel - 1) :
                    nxt \in { NextEntryPtr(q, entryPtr, g) } } : TRUE

\* MessageQueue_getNextWaitingASDU that leaves the state of the entry as it
\* is
Mut_MessageQueue_getNextWaitingASDU(q, g) ==
    LET none == [ q |-> q, buffer |-> NULL, timestamp |-> 0, queueEntry |-> NULL,
                  size |-> 0, asdu |-> Garbled, fault |-> FALSE ]
    IN
    IF q.entryCounter = 0
    THEN none
    ELSE
      LET entryPtr == FindWaiting(q, q.firstEntry, g, ScanLimit(q))
          entryInfo == ReadEntryInfo(q, entryPtr, g)
      IN  IF entryPtr = NULL
          THEN [ none EXCEPT !.fault = TRUE ]
          ELSE IF entryInfo.entryState = WAITING_FOR_TRANSMISSION
          THEN [ q          |-> q,
                 buffer     |-> entryPtr + HeaderSize,
                 timestamp  |-> entryInfo.entryTimestamp,
                 queueEntry |-> entryPtr,
                 size       |-> entryInfo.size,
                 asdu       |-> entryInfo.asdu,
                 fault      |-> FALSE ]
          ELSE none

\* MessageQueue_getNextWaitingASDU: the queue afterwards and what is returned
\* (buffer = NULL: no ASDU)
MessageQueue_getNextWaitingASDU(q, g) ==
    LET none == [ q |-> q, buffer |-> NULL, timestamp |-> 0, queueEntry |-> NULL,
                  size |-> 0, asdu |-> Garbled, fault |-> FALSE ]
    IN
    IF q.entryCounter = 0
    THEN none
    ELSE
      LET entryPtr == FindWaiting(q, q.firstEntry, g, ScanLimit(q))
          entryInfo == ReadEntryInfo(q, entryPtr, g)
      IN  IF entryPtr = NULL
          THEN [ none EXCEPT !.fault = TRUE ]
          ELSE IF entryInfo.entryState = WAITING_FOR_TRANSMISSION
          THEN [ q          |-> [ q EXCEPT !.buffer =
                                    WriteHeader(q.buffer, entryPtr,
                                        [ entryInfo EXCEPT !.entryState =
                                            SENT_BUT_NOT_CONFIRMED ]) ],
                 buffer     |-> entryPtr + HeaderSize,
                 timestamp  |-> entryInfo.entryTimestamp,
                 queueEntry |-> entryPtr,
                 size       |-> entryInfo.size,
                 asdu       |-> entryInfo.asdu,
                 fault      |-> FALSE ]
          ELSE none

\* the while loop of MessageQueue_setWaitingForTransmissionWhenNotConfirmed:
\* TRUE when it reaches lastEntry
RECURSIVE ReachesLast(_, _, _, _)
ReachesLast(q, entryPtr, g, fuel) ==
    IF entryPtr = q.lastEntry
    THEN TRUE
    ELSE \E nxt \in { NextEntryPtr(q, entryPtr, g) } :
           /\ fuel # 0
           /\ nxt + HeaderSize <= q.size
           /\ ReachesLast(q, nxt, g, fuel - 1)

\* MessageQueue_setWaitingForTransmissionWhenNotConfirmed: the loop sets
\* entryState in its local copy entryInfo of each header and never copies
\* entryInfo back to entryPtr, so no stored header changes
MessageQueue_setWaitingForTransmissionWhenNotConfirmed(q, g) ==
    IF q.entryCounter # 0
    THEN [ q |-> q, fault |-> ~ReachesLast(q, q.firstEntry, g, ScanLimit(q)) ]
    ELSE [ q |-> q, fault |-> FALSE ]

\* MessageQueue_releaseAllQueuedASDUs
MessageQueue_releaseAllQueuedASDUs(q) ==
    [ q EXCEPT !.firstEntry = NULL,
               !.lastEntry = NULL,
               !.lastInBufferEntry = NULL,
               !.entryCounter = 0 ]

\* MessageQueue_markAsduAsConfirmed: entryState is set in the local copy
\* entryInfo of the header, which is not copied back to queueEntry
MessageQueue_markAsduAsConfirmed(q, queueEntry, timestamp) ==
    IF q.entryCounter > 0 /\ timestamp >= q.oldestTimestamp
    THEN \* entryInfo.entryState = QUEUE_ENTRY_STATE_NOT_USED_OR_CONFIRMED
         q
    ELSE q

(***************************************************************************)
(* HighPriorityASDUQueue                                                   *)
(***************************************************************************)
\* HighPriorityASDUQueue_initialize.  It does not set entryCounter;
\* MasterConnection_init resets the queue before entryCounter is first read,
\* so the value malloc left is never seen and the model starts it at 0
HighPriorityASDUQueue_initialize(maxQueueSize) ==
    [ size              |-> maxQueueSize * (HighHeaderSize + SlotSize),
      entryCounter      |-> 0,
      firstEntry        |-> NULL,
      lastEntry         |-> NULL,
      lastInBufferEntry |-> NULL,
      buffer            |-> [ o \in {} |-> 0 ] ]

\* memcpy(&msgSize, ptr, 2) and the ASDU behind it; bytes never written are
\* the zeros calloc left
ReadHighEntry(q, ptr) ==
    IF ptr \in DOMAIN q.buffer
    THEN q.buffer[ptr]
    ELSE [ size |-> 0, asdu |-> Garbled ]

\* HighPriorityASDUQueue_resetConnectionQueue
HighPriorityASDUQueue_resetConnectionQueue(q) ==
    [ q EXCEPT !.firstEntry = NULL,
               !.lastEntry = NULL,
               !.lastInBufferEntry = NULL,
               !.entryCounter = 0 ]

\* HighPriorityASDUQueue_isAsduAvailable
HighPriorityASDUQueue_isAsduAvailable(q) == q.entryCounter > 0

\* HighPriorityASDUQueue_getNextASDU: the queue afterwards and what is
\* returned (buffer = NULL: no ASDU)
HighPriorityASDUQueue_getNextASDU(q) ==
    IF q.entryCounter > 0
    THEN LET entry == ReadHighEntry(q, q.firstEntry)
             q1 == [ q EXCEPT !.entryCounter = q.entryCounter - 1 ]
             q2 == IF q1.entryCounter > 0
                   THEN IF q1.firstEntry = q1.lastEntry
                        THEN [ q1 EXCEPT !.firstEntry = NULL,
                                         !.lastEntry = NULL,
                                         !.lastInBufferEntry = NULL ]
                        ELSE IF q1.firstEntry = q1.lastInBufferEntry
                             THEN [ q1 EXCEPT !.firstEntry = 0,
                                              !.lastInBufferEntry = q1.lastEntry ]
                             ELSE [ q1 EXCEPT !.firstEntry =
                                      q1.firstEntry + HighHeaderSize + entry.size ]
                   ELSE q1
         IN  [ q |-> q2, buffer |-> q.firstEntry + HighHeaderSize,
               size |-> entry.size, asdu |-> entry.asdu ]
    ELSE [ q |-> q, buffer |-> NULL, size |-> 0, asdu |-> Garbled ]

\* CS101_ASDU_encode to nextMsgPtr + 2 and memcpy(nextMsgPtr, &msgSize, 2):
\* the bytes [ptr, ptr + 2 + size) are overwritten
WriteHighEntry(buffer, ptr, entry) ==
    LET entrySize == HighHeaderSize + entry.size
        intact == { o \in DOMAIN buffer :
                      o + HighHeaderSize <= ptr \/ o >= ptr + entrySize }
    IN  [ o \in intact \cup {ptr} |->
            IF o = ptr THEN entry
            ELSE IF o < ptr /\ o + HighHeaderSize + buffer[o].size > ptr
                 THEN [ buffer[o] EXCEPT !.asdu = Garbled ]
                 ELSE buffer[o] ]

\* HighPriorityASDUQueue_enqueue: the queue afterwards and the return value
HighPriorityASDUQueue_enqueue(q, asdu, asduSize) ==
    IF asduSize > SlotSize - ApciLength
    THEN [ q |-> q, enqueued |-> FALSE ]
    ELSE
      LET entrySize == HighHeaderSize + asduSize
          q1 == IF q.entryCounter = 0
                THEN [ q EXCEPT !.firstEntry = 0, !.lastInBufferEntry = 0 ]
                ELSE q
          afterLast == IF q.entryCounter = 0
                       THEN 0
                       ELSE q.lastEntry + HighHeaderSize
                              + ReadHighEntry(q, q.lastEntry).size
          wraps == afterLast + entrySize > q.size
          nextMsgPtr == IF wraps THEN 0 ELSE afterLast
          q2 == IF wraps
                THEN [ q1 EXCEPT !.lastInBufferEntry = q1.lastEntry ]
                ELSE q1
          enqueued == ~( /\ q2.entryCounter > 0
                         /\ nextMsgPtr <= q2.firstEntry
                         /\ nextMsgPtr + entrySize > q2.firstEntry )
          q3 == IF q2.entryCounter > 0 /\ nextMsgPtr > q2.firstEntry
                THEN [ q2 EXCEPT !.lastInBufferEntry = nextMsgPtr ]
                ELSE q2
      IN  IF enqueued
          THEN [ q |-> [ q3 EXCEPT
                           !.lastEntry = nextMsgPtr,
                           !.entryCounter = q3.entryCounter + 1,
                           !.buffer = WriteHighEntry(q3.buffer, nextMsgPtr,
                                          [ size |-> asduSize, asdu |-> asdu ]) ],
                 enqueued |-> TRUE ]
          ELSE [ q |-> q3, enqueued |-> FALSE ]

(***************************************************************************)
(* MasterConnection                                                        *)
(***************************************************************************)
\* a SentASDUSlave of the k-buffer before it is first written; `asdu` is
\* history, the payload identity of the frame the entry stands for
SentASDUSlave0 ==
    [ entryTime |-> 0, queueEntry |-> NULL, seqNo |-> 0, sentTime |-> 0,
      asdu |-> Garbled ]

\* MasterConnection_create, called by createSlave for every slot of
\* masterConnections[] with conParameters = defaultConnectionParameters:
\* maxSentASDUs is the k of that moment
MasterConnection_create(k) ==
    [ isUsed          |-> FALSE,
      isActive        |-> FALSE,
      isRunning       |-> FALSE,
      sendCount       |-> 0,
      receiveCount    |-> 0,
      unconfirmedReceivedIMessages |-> 0,
      timeoutT2Triggered           |-> FALSE,
      lastConfirmationTime         |-> 0,
      nextT3Timeout                |-> 0,
      outstandingTestFRConMessages |-> 0,
      oldestSentASDU  |-> 0,
      newestSentASDU  |-> 0,
      maxSentASDUs    |-> k,
      sentASDUs       |-> [ i \in 0 .. k - 1 |-> SentASDUSlave0 ],
      lowPrioQueue    |-> NULL,
      highPrioQueue   |-> NULL,
      redundancyGroup |-> NULL ]

\* resetT3Timeout; t3 is conParameters.t3
resetT3Timeout(con, currentTime, t3) ==
    [ con EXCEPT !.nextT3Timeout = currentTime + t3 * 1000 ]

\* handleMessage, a U-format message answered with a confirmation, and the
\* worker loop after it: a failed write makes handleMessage return false
\* and the loop clears isRunning, a written one is followed by
\* resetT3Timeout
HandledU(con, ok, currentTime, t3) ==
    IF ok
    THEN resetT3Timeout(con, currentTime, t3)
    ELSE [ con EXCEPT !.isRunning = FALSE ]

\* MasterConnection_init, the fields of the connection (the reset of the
\* high-priority queue is made by the accepting action); currentTime is
\* Hal_getTimeInMs() and t3 is conParameters.t3
Mut_MasterConnection_init(con, lowPrioQueue, highPrioQueue, currentTime, t3) ==
    [ con EXCEPT !.isActive = FALSE,
                 !.isRunning = FALSE,
                 !.unconfirmedReceivedIMessages = 0,
                 !.lastConfirmationTime = UINT64_MAX,
                 !.timeoutT2Triggered = FALSE,
                 !.nextT3Timeout = currentTime + t3 * 1000,
                 !.outstandingTestFRConMessages = 0,
                 !.oldestSentASDU = NoIndex,
                 !.newestSentASDU = NoIndex,
                 !.lowPrioQueue = IF lowPrioQueue # NULL THEN lowPrioQueue ELSE @,
                 !.highPrioQueue = IF highPrioQueue # NULL THEN highPrioQueue ELSE @ ]

MasterConnection_init(con, lowPrioQueue, highPrioQueue, currentTime, t3) ==
    [ con EXCEPT !.isActive = FALSE,
                 !.isRunning = FALSE,
                 !.receiveCount = 0,
                 !.sendCount = 0,
                 !.unconfirmedReceivedIMessages = 0,
                 !.lastConfirmationTime = UINT64_MAX,
                 !.timeoutT2Triggered = FALSE,
                 !.nextT3Timeout = currentTime + t3 * 1000,
                 !.outstandingTestFRConMessages = 0,
                 !.oldestSentASDU = NoIndex,
                 !.newestSentASDU = NoIndex,
                 !.lowPrioQueue = IF lowPrioQueue # NULL THEN lowPrioQueue ELSE @,
                 !.highPrioQueue = IF highPrioQueue # NULL THEN highPrioQueue ELSE @ ]

\* MasterConnection_deactivate
MasterConnection_deactivate(con) == [ con EXCEPT !.isActive = FALSE ]

\* MasterConnection_activate leaving isActive as it is
Mut_MasterConnection_activate(con) ==
    con

\* MasterConnection_activate
MasterConnection_activate(con) ==
    [ con EXCEPT !.isActive = TRUE ]

\* the N(S) a peer reads from control field octets 1 and 2 of an I-frame
FrameSendSequenceNumber(b2, b3) == ((b3 * 256) + (b2 - (b2 % 2))) \div 2

\* the N(R) a peer reads from control field octets 3 and 4 of an I-frame or
\* an S-frame
FrameRecvSequenceNumber(b4, b5) == ((b5 * 256) + (b4 - (b4 % 2))) \div 2

\* sendIMessage with the send counter wrapped one number too early
Mut_sendIMessage(con, ok) ==
    LET b2 == (con.sendCount % 128) * 2
        b3 == con.sendCount \div 128
        b4 == (con.receiveCount % 128) * 2
        b5 == con.receiveCount \div 128
        con1 == IF ok
                THEN [ con EXCEPT !.sendCount = (con.sendCount + 1) % (SeqModulus - 1),
                                  !.unconfirmedReceivedIMessages = 0,
                                  !.timeoutT2Triggered = FALSE ]
                ELSE [ con EXCEPT !.isRunning = FALSE,
                                  !.unconfirmedReceivedIMessages = 0 ]
    IN  [ con   |-> con1,
          seqNo |-> con1.sendCount,
          ns    |-> IF ok THEN FrameSendSequenceNumber(b2, b3) ELSE NULL,
          nr    |-> IF ok THEN FrameRecvSequenceNumber(b4, b5) ELSE NULL ]

\* sendIMessage; ok is the outcome writeToSocket(...) > 0.  ns and nr are
\* the N(S) and N(R) of the I-frame written to the socket (NULL when nothing
\* was written)
sendIMessage(con, ok) ==
    LET b2 == (con.sendCount % 128) * 2
        b3 == con.sendCount \div 128
        b4 == (con.receiveCount % 128) * 2
        b5 == con.receiveCount \div 128
        con1 == IF ok
                THEN [ con EXCEPT !.sendCount = (con.sendCount + 1) % SeqModulus,
                                  !.unconfirmedReceivedIMessages = 0,
                                  !.timeoutT2Triggered = FALSE ]
                ELSE [ con EXCEPT !.isRunning = FALSE,
                                  !.unconfirmedReceivedIMessages = 0 ]
    IN  [ con   |-> con1,
          seqNo |-> con1.sendCount,
          ns    |-> IF ok THEN FrameSendSequenceNumber(b2, b3) ELSE NULL,
          nr    |-> IF ok THEN FrameRecvSequenceNumber(b4, b5) ELSE NULL ]

\* isSentBufferFull
isSentBufferFull(con) ==
    IF con.oldestSentASDU = NoIndex
    THEN FALSE
    ELSE (con.newestSentASDU + 1) % con.maxSentASDUs = con.oldestSentASDU

\* sendASDU: the connection afterwards and the N(S) written to the socket
sendASDU(con, timestamp, queueEntry, asdu, currentTime, ok) ==
    LET currentIndex == IF con.oldestSentASDU = NoIndex
                        THEN 0
                        ELSE (con.newestSentASDU + 1) % con.maxSentASDUs
        con1 == IF con.oldestSentASDU = NoIndex
                THEN [ con EXCEPT !.oldestSentASDU = 0, !.newestSentASDU = 0 ]
                ELSE con
        r == sendIMessage(con1, ok)
    IN  [ con |-> [ r.con EXCEPT
                      !.sentASDUs[currentIndex] =
                          [ entryTime  |-> timestamp,
                            queueEntry |-> queueEntry,
                            seqNo      |-> r.seqNo,
                            sentTime   |-> currentTime,
                            asdu       |-> asdu ],
                      !.newestSentASDU = currentIndex ],
          ns  |-> r.ns,
          nr  |-> r.nr ]

\* the do-while loop of checkSequenceNumber: the connection afterwards and
\* the (queueEntry, entryTime) handed to MessageQueue_markAsduAsConfirmed
RECURSIVE ConfirmLoop(_, _, _, _, _)
ConfirmLoop(con, seqNo, counterOverflowDetected, oldestValidSeqNo, marks) ==
    LET entry == con.sentASDUs[con.oldestSentASDU]
        oldestAsduSeqNo == entry.seqNo
        marks1 == IF entry.queueEntry # NULL
                  THEN Append(marks, [ queueEntry |-> entry.queueEntry,
                                       entryTime  |-> entry.entryTime ])
                  ELSE marks
        nextIndex == (con.oldestSentASDU + 1) % con.maxSentASDUs
        checkIndex == (con.newestSentASDU + 1) % con.maxSentASDUs
    IN  IF ~counterOverflowDetected /\ seqNo < oldestAsduSeqNo
        THEN [ con |-> con, marks |-> marks ]
        ELSE IF seqNo = oldestValidSeqNo
        THEN [ con |-> con, marks |-> marks ]
        ELSE IF oldestAsduSeqNo = seqNo
        THEN [ con |-> [ con EXCEPT !.oldestSentASDU =
                           IF con.oldestSentASDU = con.newestSentASDU
                           THEN NoIndex
                           ELSE nextIndex ],
               marks |-> marks1 ]
        ELSE IF nextIndex = checkIndex
        THEN [ con |-> [ con EXCEPT !.oldestSentASDU = NoIndex ],
               marks |-> marks1 ]
        ELSE CHOOSE r \in
               { ConfirmLoop(c1, seqNo, counterOverflowDetected,
                             oldestValidSeqNo, m1) :
                   c1 \in { [ con EXCEPT !.oldestSentASDU = nextIndex ] },
                   m1 \in { marks1 } } : TRUE

\* checkSequenceNumber with the newest sent number left out of the valid
\* range
Mut_checkSequenceNumber(con, seqNo) ==
    LET empty == con.oldestSentASDU = NoIndex
        oldestAsduSeqNo == con.sentASDUs[con.oldestSentASDU].seqNo
        newestAsduSeqNo == con.sentASDUs[con.newestSentASDU].seqNo
        counterOverflowDetected == ~empty /\ oldestAsduSeqNo > newestAsduSeqNo
        oldestValidSeqNo ==
            IF empty THEN NoIndex
            ELSE IF oldestAsduSeqNo = 0 THEN 32767
            ELSE (oldestAsduSeqNo - 1) % SeqModulus
        seqNoIsValid ==
            IF empty
            THEN seqNo = con.sendCount
            ELSE \/ IF oldestAsduSeqNo <= newestAsduSeqNo
                    THEN seqNo >= oldestAsduSeqNo /\ seqNo < newestAsduSeqNo
                    ELSE seqNo >= oldestAsduSeqNo \/ seqNo <= newestAsduSeqNo
                 \/ oldestValidSeqNo = seqNo
    IN  IF seqNoIsValid /\ ~empty
        THEN LET r == ConfirmLoop(con, seqNo, counterOverflowDetected,
                                  oldestValidSeqNo, << >>)
             IN  [ con |-> r.con, seqNoIsValid |-> TRUE, marks |-> r.marks ]
        ELSE [ con |-> con, seqNoIsValid |-> seqNoIsValid, marks |-> << >> ]

\* checkSequenceNumber: the connection afterwards, the return value and the
\* calls of MessageQueue_markAsduAsConfirmed it makes
checkSequenceNumber(con, seqNo) ==
    LET empty == con.oldestSentASDU = NoIndex
        oldestAsduSeqNo == con.sentASDUs[con.oldestSentASDU].seqNo
        newestAsduSeqNo == con.sentASDUs[con.newestSentASDU].seqNo
        counterOverflowDetected == ~empty /\ oldestAsduSeqNo > newestAsduSeqNo
        oldestValidSeqNo ==
            IF empty THEN NoIndex
            ELSE IF oldestAsduSeqNo = 0 THEN 32767
            ELSE (oldestAsduSeqNo - 1) % SeqModulus
        seqNoIsValid ==
            IF empty
            THEN seqNo = con.sendCount
            ELSE \/ IF oldestAsduSeqNo <= newestAsduSeqNo
                    THEN seqNo >= oldestAsduSeqNo /\ seqNo <= newestAsduSeqNo
                    ELSE seqNo >= oldestAsduSeqNo \/ seqNo <= newestAsduSeqNo
                 \/ oldestValidSeqNo = seqNo
    IN  IF seqNoIsValid /\ ~empty
        THEN LET r == ConfirmLoop(con, seqNo, counterOverflowDetected,
                                  oldestValidSeqNo, << >>)
             IN  [ con |-> r.con, seqNoIsValid |-> TRUE, marks |-> r.marks ]
        ELSE [ con |-> con, seqNoIsValid |-> seqNoIsValid, marks |-> << >> ]

(***************************************************************************)
(* The ring as the queue's cursors describe it                             *)
(***************************************************************************)
\* the offsets a scan from ptr visits in at most n further steps, following
\* only intact headers inside the buffer; NULL is appended where the scan
\* meets bytes that hold no intact header or leaves the buffer
RECURSIVE RingWalk(_, _, _)
RingWalk(q, ptr, n) ==
    IF ptr \notin DOMAIN q.buffer
         \/ ptr + HeaderSize + q.buffer[ptr].size > q.size
    THEN << NULL >>
    ELSE IF n = 0 \/ ptr = q.lastEntry
         THEN << ptr >>
         ELSE CHOOSE r \in
                { << ptr >> \o RingWalk(q, nxt, n - 1) :
                    nxt \in { NextEntryPtr(q, ptr, q.buffer[ptr]) } } : TRUE

\* the offsets of the live entries, oldest first
LiveEntries(q) ==
    IF q.entryCounter > 0
    THEN RingWalk(q, q.firstEntry, q.entryCounter - 1)
    ELSE << >>

\* the bytes of two stored entries overlap
Overlap(q, a, b) ==
    /\ a < b + HeaderSize + q.buffer[b].size
    /\ b < a + HeaderSize + q.buffer[a].size

\* the ring invariant of the MessageQueue
RingInvariant(q) ==
    /\ q.entryCounter >= 0
    /\ q.entryCounter = 0 =>
         /\ q.firstEntry = NULL
         /\ q.lastEntry = NULL
         /\ q.lastInBufferEntry = NULL
    /\ q.entryCounter > 0 =>
         LET live == LiveEntries(q)
         IN  /\ Len(live) = q.entryCounter
             /\ \A i \in 1 .. Len(live) : live[i] # NULL
             /\ live[Len(live)] = q.lastEntry
             /\ \A i, j \in 1 .. Len(live) :
                  i # j => ~Overlap(q, live[i], live[j])

\* the payload identities of the live entries, oldest first
LiveAsdus(q) ==
    LET live == LiveEntries(q)
    IN  [ i \in 1 .. Len(live) |->
            IF live[i] = NULL THEN Garbled ELSE q.buffer[live[i]].asdu ]

(***************************************************************************)
(* CS104_Slave: the threaded server (CS104_Slave_start).  Every connection *)
(* has a worker (connectionHandlingThread); handlers and the application   *)
(* run in threads of their own.                                            *)
(***************************************************************************)
\* a connection that has read nothing and whose socket holds nothing
NoRx == [ recvBuffer |-> << >>, recvBufPos |-> 0, socket |-> << >>, arrived |-> 0 ]

\* no I-frame written yet
NoFrame == [ ns |-> NULL, nr |-> NULL, asdu |-> Garbled, src |-> "none" ]

\* the history of a session that starts at time t: the last control frame
\* written, the number of S-frames written and the last one's N(R), the
\* number of TESTFR_ACT frames written and how many of them were written
\* when the last TESTFR_CON came in, the time since which the line is idle
\* (the last frame handled or TESTFR_ACT written), and the arrival time of
\* the I-frame that followed the last acknowledgement written, (where it is
\* recorded) sendCount when STOPDT_ACT was last handled, and the number of
\* CS104_CON_EVENT_CONNECTION_CLOSED events delivered
NoCtl(t) ==
    [ last |-> "none", sframes |-> 0, nr |-> NULL, testfr |-> 0,
      answered |-> 0, idleSince |-> t, unackedSince |-> NULL,
      stopped |-> NULL, closed |-> 0, clockStep |-> NULL,
      responses |-> << >> ]

\* writeToSocket of a U-format message
WroteU(cr, type) == [ cr EXCEPT !.last = type ]

\* writeToSocket of the S-format message of sendSMessage
WroteS(cr, nr) == [ cr EXCEPT !.last = "S", !.sframes = @ + 1, !.nr = nr ]

\* a frame was taken from the socket and handled at time t
Handled(cr, t) == [ cr EXCEPT !.idleSince = t ]

\* no active connection has left an unacknowledged entry
NoHandoff == [ asdu |-> Garbled, fresh |-> {} ]

\* the k-buffer indices from oldestSentASDU to newestSentASDU
KBufferIndices(con) ==
    IF con.oldestSentASDU = NoIndex
    THEN << >>
    ELSE [ i \in 1 .. ((con.newestSentASDU - con.oldestSentASDU)
                          % con.maxSentASDUs) + 1 |->
             (con.oldestSentASDU + i - 1) % con.maxSentASDUs ]

\* the k-buffer entries from oldest to newest
KBuffer(con) ==
    LET idx == KBufferIndices(con)
    IN  [ i \in 1 .. Len(idx) |-> con.sentASDUs[idx[i]] ]

\* the first slot whenever a slot is free, in use or not
Mut_getFreeConnection(cs) ==
    IF \E i \in ConnIds : ~cs[i].isUsed
    THEN CHOOSE i \in ConnIds : \A j \in ConnIds : i <= j
    ELSE NULL

\* getFreeConnection: the first slot with isUsed == false, NULL if none
getFreeConnection(cs) ==
    IF \E i \in ConnIds : ~cs[i].isUsed
    THEN CHOOSE i \in ConnIds :
           ~cs[i].isUsed /\ \A j \in ConnIds : j < i => cs[j].isUsed
    ELSE NULL

\* the loops of CS104_Slave_activate that deactivate the other connections,
\* made under openConnectionsLock
Mut_DeactivatePeers(cs, mode, connectionToActivate) ==
    [ i \in ConnIds |->
        IF i # connectionToActivate /\ mode # CONNECTION_IS_REDUNDANCY_GROUP
        THEN MasterConnection_deactivate(cs[i])
        ELSE cs[i] ]

DeactivatePeers(cs, mode, connectionToActivate) ==
    [ i \in ConnIds |->
        IF /\ i # connectionToActivate
           /\ \/ mode = SINGLE_REDUNDANCY_GROUP
              \/ /\ mode = MULTIPLE_REDUNDANCY_GROUPS
                 /\ cs[i].redundancyGroup = cs[connectionToActivate].redundancyGroup
        THEN MasterConnection_deactivate(cs[i])
        ELSE cs[i] ]

\* the calls of MessageQueue_markAsduAsConfirmed checkSequenceNumber makes
RECURSIVE ApplyMarks(_, _)
ApplyMarks(q, marks) ==
    IF marks = << >>
    THEN q
    ELSE ApplyMarks(
             MessageQueue_markAsduAsConfirmed(
                 q, Head(marks).queueEntry, Head(marks).entryTime),
             Tail(marks))

\* the sequence numbers a peer may report in an S-frame: those of the
\* k-buffer, sendCount and their neighbours
AckCandidates(con) ==
    LET kb == KBuffer(con)
        near == { con.sendCount } \cup { kb[i].seqNo : i \in 1 .. Len(kb) }
    IN  UNION { { (n + SeqModulus - 2) % SeqModulus,
                  (n + SeqModulus - 1) % SeqModulus,
                  n,
                  (n + 1) % SeqModulus } : n \in near }

\* initializeConnectionSpecificQueues: in mode CONNECTION_IS_REDUNDANCY_GROUP
\* CS104_Slave_start creates a low and a high-priority queue for every slot
\* of masterConnections[] (queue id = slot)
initializeConnectionSpecificQueues(cs) ==
    [ i \in ConnIds |-> [ cs[i] EXCEPT !.lowPrioQueue = i,
                                       !.highPrioQueue = i ] ]

\* serverThread: a peer connects and is accepted, op is what lastOp records
\* of it.  getFreeConnection marks the slot used and counts it in
\* openConnections; MasterConnection_init gets the queues of the slave in
\* mode SINGLE_REDUNDANCY_GROUP, those of the matching redundancy group grp
\* (MasterConnection_initEx) in mode MULTIPLE_REDUNDANCY_GROUPS and NULL in
\* mode CONNECTION_IS_REDUNDANCY_GROUP, where it keeps the queues of the
\* slot and releases what the low-priority one holds
AcceptWith(grp, op) ==
    /\ ~fault
    /\ accepted < MaxAccept
    /\ serverMode # MULTIPLE_REDUNDANCY_GROUPS => grp = 1
    /\ getFreeConnection(conns) # NULL
    /\ LET c == getFreeConnection(conns)
           own == serverMode = CONNECTION_IS_REDUNDANCY_GROUP
           queue == IF own THEN NULL ELSE grp
           con == MasterConnection_init(conns[c], queue, queue, now,
                                        conParameters.t3)
       IN  /\ conns' = [ conns EXCEPT ![c] =
                           [ con EXCEPT
                               !.isUsed = TRUE,
                               !.isRunning = TRUE,
                               !.redundancyGroup =
                                   IF serverMode = MULTIPLE_REDUNDANCY_GROUPS
                                   THEN grp ELSE @ ] ]
           /\ highQ' = [ highQ EXCEPT ![con.highPrioQueue] =
                           HighPriorityASDUQueue_resetConnectionQueue(@) ]
           /\ lowQ' = IF own
                      THEN [ lowQ EXCEPT ![con.lowPrioQueue] =
                               MessageQueue_releaseAllQueuedASDUs(@) ]
                      ELSE lowQ
           /\ wire' = [ wire EXCEPT ![c] = << >> ]
           /\ txCount' = [ txCount EXCEPT ![c] = 0 ]
           /\ lastFrame' = [ lastFrame EXCEPT ![c] = NoFrame ]
           /\ handoff' = IF wire[c] # << >>
                         THEN [ handoff EXCEPT !.fresh = @ \ {c} ]
                         ELSE handoff
           /\ ctl' = [ ctl EXCEPT ![c] = NoCtl(now) ]
           /\ dispatched' = [ dispatched EXCEPT ![c] = 0 ]
           /\ rx' = [ rx EXCEPT ![c] = NoRx ]
    /\ accepted' = accepted + 1
    /\ lastOp' = op
    /\ slave' = [ slave EXCEPT !.openConnections = @ + 1 ]
    /\ UNCHANGED <<now, enqLog, held, fault, serverMode, conParameters,
                   pc, everSent, highLog, locks>>

\* serverThread: a peer connects and is accepted; in mode
\* MULTIPLE_REDUNDANCY_GROUPS its address matches redundancy group grp
Accept(grp) == AcceptWith(grp, lastOp)

\* handleMessage, STARTDT_ACT, first half of CS104_Slave_activate: the peers
\* are deactivated under openConnectionsLock
StartDT_DeactivatePeers(c) ==
    /\ ~fault
    /\ conns[c].isUsed /\ conns[c].isRunning /\ pc[c] = "idle"
    /\ conns' = DeactivatePeers(conns, serverMode, c)
    /\ pc' = [ pc EXCEPT ![c] = "activate" ]
    /\ UNCHANGED <<now, lastOp, lowQ, enqLog, held, fault, serverMode, conParameters,
                   highQ, wire, txCount, lastFrame, handoff, everSent, accepted>>
    /\ UNCHANGED <<xvars, locks, slave, rx>>

\* handleMessage, STARTDT_ACT, second half: MasterConnection_activate after
\* openConnectionsLock is released, then the reset of the high-priority queue
StartDT_Activate(c) ==
    /\ pc[c] = "activate"
    /\ \E ok \in BOOLEAN :
         /\ conns' = [ conns EXCEPT ![c] =
                         HandledU(MasterConnection_activate(@), ok, now,
                                  conParameters.t3) ]
         /\ ctl' = IF ok
                   THEN [ ctl EXCEPT ![c] = Handled(WroteU(@, "STARTDT_CON"), now) ]
                   ELSE ctl
    /\ highQ' = [ highQ EXCEPT ![conns[c].highPrioQueue] =
                    HighPriorityASDUQueue_resetConnectionQueue(@) ]
    /\ pc' = [ pc EXCEPT ![c] = "idle" ]
    /\ UNCHANGED <<now, lastOp, lowQ, enqLog, held, fault, serverMode, conParameters,
                   wire, txCount, lastFrame, handoff, everSent, accepted>>
    /\ UNCHANGED <<highLog, dispatched, locks, slave, rx>>

\* handleMessage, STOPDT_ACT; with log, sendCount is recorded in the history
Mut_StopDTOf(c, log) ==
    /\ ~fault
    /\ conns[c].isUsed /\ conns[c].isRunning /\ pc[c] = "idle"
    /\ conns[c].isActive
    /\ \E ok \in BOOLEAN :
         /\ conns' = [ conns EXCEPT ![c] =
                         HandledU(MasterConnection_init(@, NULL, NULL, now, 0), ok, now,
                                  conParameters.t3) ]
         /\ ctl' = IF ok
                   THEN [ ctl EXCEPT ![c] =
                            [ Handled(WroteU(@, "STOPDT_CON"), now) EXCEPT
                                !.stopped = IF log THEN conns[c].sendCount
                                            ELSE @ ] ]
                   ELSE ctl
    /\ UNCHANGED <<now, lastOp, lowQ, enqLog, held, fault, serverMode, conParameters,
                   highQ, pc, wire, txCount, lastFrame, handoff, everSent, accepted>>
    /\ UNCHANGED <<highLog, dispatched, locks, slave, rx>>

StopDTOf(c, log) ==
    /\ ~fault
    /\ conns[c].isUsed /\ conns[c].isRunning /\ pc[c] = "idle"
    /\ conns[c].isActive
    /\ \E ok \in BOOLEAN :
         /\ conns' = [ conns EXCEPT ![c] =
                         HandledU(MasterConnection_deactivate(@), ok, now,
                                  conParameters.t3) ]
         /\ ctl' = IF ok
                   THEN [ ctl EXCEPT ![c] =
                            [ Handled(WroteU(@, "STOPDT_CON"), now) EXCEPT
                                !.stopped = IF log THEN conns[c].sendCount
                                            ELSE @ ] ]
                   ELSE ctl
    /\ UNCHANGED <<now, lastOp, lowQ, enqLog, held, fault, serverMode, conParameters,
                   highQ, pc, wire, txCount, lastFrame, handoff, everSent, accepted>>
    /\ UNCHANGED <<highLog, dispatched, locks, slave, rx>>

\* handleMessage, STOPDT_ACT
StopDT(c) == StopDTOf(c, FALSE)

\* connectionHandlingThread: receiveMessage returns -1 (the TCP connection
\* is gone) and the loop is left
PeerDrop(c) ==
    /\ ~fault
    /\ conns[c].isUsed /\ conns[c].isRunning /\ pc[c] = "idle"
    /\ conns' = [ conns EXCEPT ![c].isRunning = FALSE ]
    /\ UNCHANGED <<now, lastOp, lowQ, enqLog, held, fault, serverMode, conParameters,
                   highQ, pc, wire, txCount, lastFrame, handoff, everSent, accepted>>
    /\ UNCHANGED <<xvars, locks, slave, rx>>

\* the entry an active connection leaves unacknowledged when it is removed:
\* the oldest k-buffer entry from the low-priority queue that was written to
\* the socket and is still in the queue (Garbled if none)
LeftUnacknowledged(c) ==
    LET kb == KBuffer(conns[c])
        q == lowQ[conns[c].lowPrioQueue]
        live == LiveAsdus(q)
        cand == { i \in 1 .. Len(kb) :
                    /\ kb[i].queueEntry # NULL
                    /\ \E j \in 1 .. Len(wire[c]) : wire[c][j].asdu = kb[i].asdu
                    /\ \E j \in 1 .. Len(live) : live[j] = kb[i].asdu }
    IN  IF cand = {}
        THEN Garbled
        ELSE kb[CHOOSE i \in cand : \A j \in cand : i <= j].asdu

\* the end of connectionHandlingThread: the connection event handler is
\* called with CS104_CON_EVENT_CONNECTION_CLOSED, then
\* CS104_Slave_removeConnection
WorkerExit(c) ==
    /\ ~fault
    /\ conns[c].isUsed /\ ~conns[c].isRunning /\ pc[c] = "idle"
    /\ conns' = [ conns EXCEPT ![c].isUsed = FALSE ]
    /\ IF conns[c].isActive
       THEN \E g \in GarbageHeaders :
              LET r == MessageQueue_setWaitingForTransmissionWhenNotConfirmed(
                           lowQ[conns[c].lowPrioQueue], g)
              IN  /\ lowQ' = [ lowQ EXCEPT ![conns[c].lowPrioQueue] = r.q ]
                  /\ fault' = r.fault
       ELSE UNCHANGED <<lowQ, fault>>
    /\ handoff' = IF /\ conns[c].isActive
                     /\ serverMode = SINGLE_REDUNDANCY_GROUP
                     /\ LeftUnacknowledged(c) # Garbled
                  THEN [ asdu  |-> LeftUnacknowledged(c),
                         fresh |-> { b \in ConnIds \ {c} : wire[b] = << >> } ]
                  ELSE handoff
    /\ slave' = [ slave EXCEPT !.openConnections = @ - 1 ]
    /\ ctl' = [ ctl EXCEPT ![c].closed = @ + 1 ]
    /\ UNCHANGED <<now, lastOp, enqLog, held, serverMode, conParameters, highQ, pc,
                   wire, txCount, lastFrame, everSent, accepted>>
    /\ UNCHANGED <<highLog, dispatched, locks, rx>>

\* CS104_Slave_enqueueASDU, at most limit times; the application enqueues
\* ASDUs of one encoded size
EnqueueASDU(limit) ==
    /\ ~fault
    /\ Len(enqLog[1]) < limit
    /\ \E asduSize \in SlaveAsduSizes, g \in GarbageHeaders :
         LET asdu == Len(enqLog[1]) + 1
             targets == IF serverMode = SINGLE_REDUNDANCY_GROUP
                        THEN {1}
                        ELSE IF serverMode = MULTIPLE_REDUNDANCY_GROUPS
                        THEN 1 .. Len(slave.redundancyGroups)
                        ELSE { conns[i].lowPrioQueue : i \in ConnIds }
             lowQ1 == [ i \in QueueIds |->
                          IF i \in targets
                          THEN MessageQueue_enqueueASDU(lowQ[i], asdu, asduSize, now, g)
                          ELSE lowQ[i] ]
             live == LiveAsdus(lowQ1[1])
         IN  /\ enqLog[1] # << >> => asduSize = enqLog[1][1].size
             /\ lowQ' = lowQ1
             /\ enqLog' = [ i \in QueueIds |->
                              IF i \in targets
                              THEN Append(enqLog[i],
                                          [ asdu |-> asdu, size |-> asduSize ])
                              ELSE enqLog[i] ]
             /\ handoff' = IF \E j \in 1 .. Len(live) : live[j] = handoff.asdu
                           THEN handoff
                           ELSE NoHandoff
    /\ UNCHANGED <<now, lastOp, held, fault, serverMode, conParameters, conns, highQ,
                   pc, wire, txCount, lastFrame, everSent, accepted>>
    /\ UNCHANGED <<xvars, locks, slave, rx>>

\* CS104_Slave_enqueueASDU
Enqueue == EnqueueASDU(MaxSlaveEnqueue)

\* the history of connection c after sendASDU wrote (ns # NULL) or failed to
\* write an I-frame
Transmitted(c, r, asdu, src) ==
    /\ txCount' = [ txCount EXCEPT ![c] = IF r.ns # NULL THEN @ + 1 ELSE @ ]
    /\ lastFrame' = [ lastFrame EXCEPT ![c] =
                        IF r.ns # NULL
                        THEN [ ns |-> r.ns, nr |-> r.nr, asdu |-> asdu,
                               src |-> src ]
                        ELSE @ ]
    /\ wire' = [ wire EXCEPT ![c] =
                   IF r.ns # NULL /\ src = "low"
                   THEN Append(@, [ ns |-> r.ns, asdu |-> asdu,
                                    enq |-> Len(enqLog[1]) ])
                   ELSE @ ]
    /\ everSent' = everSent + 1

\* sendWaitingASDUs, its last step: sendNextLowPriorityASDU, reached when
\* HighPriorityASDUQueue_isAsduAvailable is false
SendNextLow(c) ==
    /\ ~fault
    /\ conns[c].isUsed /\ conns[c].isRunning /\ pc[c] = "idle"
    /\ conns[c].isActive
    /\ ~HighPriorityASDUQueue_isAsduAvailable(highQ[conns[c].highPrioQueue])
    /\ ~isSentBufferFull(conns[c])
    /\ \E g \in GarbageHeaders, ok \in BOOLEAN :
         LET qid == conns[c].lowPrioQueue
             w == MessageQueue_getNextWaitingASDU(lowQ[qid], g)
             r == sendASDU(conns[c], w.timestamp, w.queueEntry, w.asdu, now, ok)
         IN  /\ w.buffer # NULL \/ w.fault
             /\ lowQ' = [ lowQ EXCEPT ![qid] = w.q ]
             /\ fault' = w.fault
             /\ IF w.buffer # NULL
                THEN /\ conns' = [ conns EXCEPT ![c] = r.con ]
                     /\ Transmitted(c, r, w.asdu, "low")
                ELSE UNCHANGED <<conns, txCount, lastFrame, wire, everSent>>
    /\ UNCHANGED <<now, lastOp, enqLog, held, serverMode, conParameters, highQ, pc,
                   handoff, accepted>>
    /\ UNCHANGED <<xvars, locks, slave, rx>>

\* sendWaitingASDUs, one pass of its loop: sendNextHighPriorityASDU
SendNextHigh(c) ==
    /\ ~fault
    /\ conns[c].isUsed /\ conns[c].isRunning /\ pc[c] = "idle"
    /\ conns[c].isActive
    /\ HighPriorityASDUQueue_isAsduAvailable(highQ[conns[c].highPrioQueue])
    /\ ~isSentBufferFull(conns[c])
    /\ everSent < MaxSend
    /\ \E ok \in BOOLEAN :
         LET qid == conns[c].highPrioQueue
             h == HighPriorityASDUQueue_getNextASDU(highQ[qid])
             r == sendASDU(conns[c], 0, NULL, h.asdu, now, ok)
         IN  /\ highQ' = [ highQ EXCEPT ![qid] = h.q ]
             /\ conns' = [ conns EXCEPT ![c] = r.con ]
             /\ Transmitted(c, r, h.asdu, "high")
    /\ UNCHANGED <<now, lastOp, lowQ, enqLog, held, fault, serverMode, conParameters,
                   pc, handoff, accepted>>
    /\ UNCHANGED <<xvars, locks, slave, rx>>

\* sendASDUInternal, called by a handler that answers a received ASDU
\* (handleASDU in the worker, through IMasterConnection_sendASDU)
DirectSend(c) ==
    /\ ~fault
    /\ conns[c].isUsed /\ conns[c].isRunning /\ pc[c] = "idle"
    /\ conns[c].isActive
    /\ \E asduSize \in ResponseSizes, ok \in BOOLEAN :
         IF ~isSentBufferFull(conns[c])
         THEN LET r == sendASDU(conns[c], 0, NULL, ResponseAsdu, now, ok)
              IN  /\ everSent < MaxSend
                  /\ conns' = [ conns EXCEPT ![c] = r.con ]
                  /\ Transmitted(c, r, ResponseAsdu, "direct")
                  /\ UNCHANGED highQ
         ELSE LET qid == conns[c].highPrioQueue
                  e == HighPriorityASDUQueue_enqueue(highQ[qid], ResponseAsdu, asduSize)
              IN  /\ highQ' = [ highQ EXCEPT ![qid] = e.q ]
                  /\ UNCHANGED <<conns, txCount, lastFrame, wire, everSent>>
    /\ UNCHANGED <<now, lastOp, lowQ, enqLog, held, fault, serverMode, conParameters,
                   pc, handoff, accepted>>
    /\ UNCHANGED <<xvars, locks, slave, rx>>

\* handleMessage, S-frame with N(R) = seqNo: checkSequenceNumber; the
\* connection is closed when it returns false.  With log, the call and its
\* return value are recorded in lastOp
RecvAckOf(c, log) ==
    /\ ~fault
    /\ conns[c].isUsed /\ conns[c].isRunning /\ pc[c] = "idle"
    /\ \E seqNo \in AckCandidates(conns[c]) :
         LET r == checkSequenceNumber(conns[c], seqNo)
             qid == conns[c].lowPrioQueue
         IN  /\ conns' = [ conns EXCEPT ![c] =
                             IF r.seqNoIsValid
                             THEN resetT3Timeout(r.con, now, conParameters.t3)
                             ELSE [ r.con EXCEPT !.isRunning = FALSE ] ]
             /\ lowQ' = [ lowQ EXCEPT ![qid] = ApplyMarks(@, r.marks) ]
             /\ lastOp' = IF log
                          THEN [ op |-> "check_seqno", c |-> c, seqNo |-> seqNo,
                                 valid |-> r.seqNoIsValid ]
                          ELSE lastOp
             /\ ctl' = IF r.seqNoIsValid
                       THEN [ ctl EXCEPT ![c] = Handled(@, now) ]
                       ELSE ctl
    /\ UNCHANGED <<now, enqLog, held, fault, serverMode, conParameters, highQ,
                   pc, wire, txCount, lastFrame, handoff, everSent, accepted>>
    /\ UNCHANGED <<highLog, dispatched, locks, slave, rx>>

\* handleMessage, S-frame
RecvAck(c) == RecvAckOf(c, FALSE)

\* the application writes k through the pointer
\* CS104_Slave_getConnectionParameters returns
SetK ==
    /\ ~fault
    /\ \E k \in Ks :
         /\ k # conParameters.k
         /\ conParameters' = [ conParameters EXCEPT !.k = k ]
    /\ UNCHANGED <<now, lastOp, lowQ, enqLog, held, fault, serverMode, conns, highQ,
                   pc, wire, txCount, lastFrame, handoff, everSent, accepted>>
    /\ UNCHANGED <<xvars, locks, slave, rx>>

\* the threads of the slave: the connection handling thread of every slot of
\* masterConnections[] and the thread of the application
ApplicationThread == 0

Threads == ConnIds \cup {ApplicationThread}

\* a thread outside every function that takes a semaphore
Idle == [ holding |-> << >>, todo |-> << >> ]

IP_ADDRESS_TYPE_IPV4 == "IPV4"

IP_ADDRESS_TYPE_IPV6 == "IPV6"

\* a group of an address string without a digit (as on both sides of "::")
NoDigits == NULL

\* an address string with its port and brackets removed (getPeerAddress), as
\* CS104_IPAddress_setFromString reads it: whether it holds a '.', and the
\* numbers between its separators
Dotted(parts) == [ dotted |-> TRUE, parts |-> parts ]

Colons(parts) == [ dotted |-> FALSE, parts |-> parts ]

\* strtoul on a group of the string: 0 when the group has no digit
strtoul(part) == IF part = NoDigits THEN 0 ELSE part

\* the values the 16 address bytes of a struct sCS104_IPAddress on the stack
\* may hold before anything is assigned to them
StackBytes == { 0, 204 }

StackStructs == { [ i \in 1 .. 16 |-> b ] : b \in StackBytes }

\* CS104_IPAddress_setFromString into a struct holding the bytes stack: one
\* byte per number of a dotted string (at most 4), two bytes per number
\* otherwise (at most 8 numbers); the loop ends with the string, the bytes
\* it did not reach keep what the struct held
CS104_IPAddress_setFromString(stack, ipAddrStr) ==
    LET parts == ipAddrStr.parts
        n == IF ipAddrStr.dotted
             THEN (IF Len(parts) < 4 THEN Len(parts) ELSE 4)
             ELSE (IF Len(parts) < 8 THEN Len(parts) ELSE 8)
    IN  IF ipAddrStr.dotted
        THEN [ type    |-> IP_ADDRESS_TYPE_IPV4,
               address |-> [ i \in 1 .. 16 |->
                               IF i <= n
                               THEN strtoul(parts[i]) % 256
                               ELSE stack[i] ] ]
        ELSE [ type    |-> IP_ADDRESS_TYPE_IPV6,
               address |-> [ i \in 1 .. 16 |->
                               IF (i + 1) \div 2 <= n
                               THEN IF i % 2 = 1
                                    THEN (strtoul(parts[(i + 1) \div 2]) \div 256) % 256
                                    ELSE strtoul(parts[(i + 1) \div 2]) % 256
                               ELSE stack[i] ] ]

\* the number of address bytes of a type
AddressSize(type) == IF type = IP_ADDRESS_TYPE_IPV4 THEN 4 ELSE 16

\* CS104_IPAddress_equals: the types, then 4 or 16 bytes
CS104_IPAddress_equals(self, other) ==
    /\ self.type = other.type
    /\ \A i \in 1 .. AddressSize(self.type) : self.address[i] = other.address[i]

\* CS104_RedundancyGroup_addAllowedClientEx: the entry appended to
\* allowedClients holds the type and the first 4 or 16 bytes of ipAddress
\* (text is the string the entry was made from)
AllowedClientEx(ipAddress, addressType, text) ==
    [ type    |-> addressType,
      address |-> [ i \in 1 .. AddressSize(addressType) |-> ipAddress[i] ],
      text    |-> text ]

\* CS104_RedundancyGroup_addAllowedClient: the string is parsed into a
\* struct on the stack and handed to CS104_RedundancyGroup_addAllowedClientEx
AllowedClient(stack, ipAddress) ==
    LET ipAddr == CS104_IPAddress_setFromString(stack, ipAddress)
    IN  AllowedClientEx(ipAddr.address, ipAddr.type, ipAddress)

\* allowedClients == NULL: the list is created with its first entry, so that
\* it is never empty
NoAllowedClients == << >>

\* CS104_RedundancyGroup_create followed by the calls of
\* CS104_RedundancyGroup_addAllowedClient: allowedClients is NULL (a
\* catch-all group) or the list of the addresses added
RedundancyGroup(allowedClients) == [ allowedClients |-> allowedClients ]

\* CS104_RedundancyGroup_matches: false without allowedClients, else whether
\* one of them equals ipAddress
CS104_RedundancyGroup_matches(self, ipAddress) ==
    /\ self.allowedClients # NoAllowedClients
    /\ \E i \in 1 .. Len(self.allowedClients) :
          CS104_IPAddress_equals(ipAddress, self.allowedClients[i])

CS104_RedundancyGroup_isCatchAll(self) == self.allowedClients = NoAllowedClients

\* the loop of getMatchingRedundancyGroup from list element i on
RECURSIVE MatchingGroupFrom(_, _, _, _)
MatchingGroupFrom(redundancyGroups, i, ipAddress, catchAllGroup) ==
    IF i > Len(redundancyGroups)
    THEN catchAllGroup
    ELSE IF CS104_RedundancyGroup_matches(redundancyGroups[i], ipAddress)
    THEN i
    ELSE MatchingGroupFrom(
             redundancyGroups, i + 1, ipAddress,
             IF CS104_RedundancyGroup_isCatchAll(redundancyGroups[i])
             THEN i ELSE catchAllGroup)

\* getMatchingRedundancyGroup: the position in redundancyGroups of the
\* group the peer with address string ipAddrStr is bound to, NULL if none
getMatchingRedundancyGroup(redundancyGroups, stack, ipAddrStr) ==
    MatchingGroupFrom(redundancyGroups, 1,
                      CS104_IPAddress_setFromString(stack, ipAddrStr), NULL)

\* the address string of the client redundancy group g allows by default
DefaultClient(g) == Dotted(<<10, 0, 0, g>>)

\* the redundancy groups of the specifications whose peers are identified
\* with the group they match: one group per pair of queues, each with one
\* IPv4 client allowed
DefaultGroups ==
    [ g \in QueueIds |->
        RedundancyGroup(<<AllowedClient(CHOOSE st \in StackStructs : TRUE,
                                        DefaultClient(g))>>) ]

\* the fields of the slave after createSlave
SlaveNotStarted ==
    [ openConnections  |-> 0,
      maxOpenConnections |-> MaxClientConnections,
      redundancyGroups |-> << >>,
      isRunning        |-> FALSE,
      stopRunning      |-> FALSE,
      isThreadlessMode |-> FALSE,
      caller           |-> "application" ]

\* the fields of the slave after createSlave, CS104_Slave_addRedundancyGroup
\* for the groups of mode MULTIPLE_REDUNDANCY_GROUPS and CS104_Slave_start,
\* with the connections cs open: the listener running
SlaveStarted(cs) ==
    [ openConnections  |-> Cardinality({ c \in ConnIds : cs[c].isUsed }),
      maxOpenConnections |-> MaxClientConnections,
      redundancyGroups |-> IF serverMode = MULTIPLE_REDUNDANCY_GROUPS
                           THEN DefaultGroups ELSE << >>,
      isRunning        |-> TRUE,
      stopRunning      |-> FALSE,
      isThreadlessMode |-> FALSE,
      caller           |-> "application" ]

\* nothing recorded yet in the histories of xvars, no semaphore taken,
\* nothing received
NoHistory ==
    /\ highLog = [ accepted |-> << >>, returned |-> << >> ]
    /\ ctl = [ c \in ConnIds |-> NoCtl(0) ]
    /\ dispatched = [ c \in ConnIds |-> 0 ]
    /\ locks = [ t \in Threads |-> Idle ]
    /\ rx = [ c \in ConnIds |-> NoRx ]

\* no history and the slave started
HistoryEmpty ==
    /\ NoHistory
    /\ slave = SlaveStarted(conns)

\* createSlave and the queues CS104_Slave_start creates: every slot of
\* masterConnections[] created with the default k, the queues empty
Created ==
    /\ now = 0
    /\ lowQ = [ i \in QueueIds |-> MessageQueue_initialize(MaxQueueSize) ]
    /\ enqLog = [ i \in QueueIds |-> << >> ]
    /\ held = << >>
    /\ fault = FALSE
    /\ conParameters = DefaultParameters
    /\ conns = IF serverMode = CONNECTION_IS_REDUNDANCY_GROUP
               THEN initializeConnectionSpecificQueues(
                        [ c \in ConnIds |-> MasterConnection_create(DefaultK) ])
               ELSE [ c \in ConnIds |-> MasterConnection_create(DefaultK) ]
    /\ highQ = [ i \in QueueIds |->
                   HighPriorityASDUQueue_initialize(MaxHighQueueSize) ]
    /\ pc = [ c \in ConnIds |-> "idle" ]
    /\ wire = [ c \in ConnIds |-> << >> ]
    /\ txCount = [ c \in ConnIds |-> 0 ]
    /\ lastFrame = [ c \in ConnIds |-> NoFrame ]
    /\ handoff = NoHandoff
    /\ everSent = 0
    /\ accepted = 0

\* the slave after CS104_Slave_create / CS104_Slave_start
SlaveCreated ==
    /\ Created
    /\ HistoryEmpty

(***************************************************************************)
(* Specification of the slave in mode SINGLE_REDUNDANCY_GROUP: connections *)
(* are accepted, activated, deactivated and dropped while the application  *)
(* enqueues ASDUs and the active connection sends them and receives        *)
(* acknowledgements.                                                       *)
(***************************************************************************)
Init ==
    /\ serverMode = SINGLE_REDUNDANCY_GROUP
    /\ lastOp = [ op |-> "init" ]
    /\ SlaveCreated

Next ==
    \/ \E grp \in QueueIds : Accept(grp)
    \/ \E c \in ConnIds : StartDT_DeactivatePeers(c)
    \/ \E c \in ConnIds : StartDT_Activate(c)
    \/ \E c \in ConnIds : StopDT(c)
    \/ \E c \in ConnIds : PeerDrop(c)
    \/ \E c \in ConnIds : WorkerExit(c)
    \/ Enqueue
    \/ \E c \in ConnIds : SendNextLow(c)
    \/ \E c \in ConnIds : RecvAck(c)

Spec == Init /\ [][Next]_vars

(***************************************************************************)
(* Specification of activation: in mode SINGLE_REDUNDANCY_GROUP and in     *)
(* mode MULTIPLE_REDUNDANCY_GROUPS with two redundancy groups, connections *)
(* are accepted, activated, deactivated and dropped.                       *)
(***************************************************************************)
InitAct ==
    /\ serverMode \in {SINGLE_REDUNDANCY_GROUP, MULTIPLE_REDUNDANCY_GROUPS}
    /\ lastOp = [ op |-> "init" ]
    /\ SlaveCreated

NextAct ==
    \/ \E grp \in QueueIds : Accept(grp)
    \/ \E c \in ConnIds : StartDT_DeactivatePeers(c)
    \/ \E c \in ConnIds : StartDT_Activate(c)
    \/ \E c \in ConnIds : StopDT(c)
    \/ \E c \in ConnIds : PeerDrop(c)
    \/ \E c \in ConnIds : WorkerExit(c)

SpecAct == InitAct /\ [][NextAct]_vars

(***************************************************************************)
(* Specification of one connection's window: connection 1 of a slave in    *)
(* mode SINGLE_REDUNDANCY_GROUP is accepted and active, all I-frames it    *)
(* has sent are acknowledged; the worker, the handlers and the application *)
(* send, the peer acknowledges, the application changes k.                 *)
(***************************************************************************)
InitWin ==
    /\ serverMode = SINGLE_REDUNDANCY_GROUP
    /\ lastOp = [ op |-> "init" ]
    /\ now = 0
    /\ lowQ = [ i \in QueueIds |-> MessageQueue_initialize(MaxQueueSize) ]
    /\ enqLog = [ i \in QueueIds |-> << >> ]
    /\ held = << >>
    /\ fault = FALSE
    /\ conParameters = DefaultParameters
    /\ \E s \in SendCountStarts :
         /\ conns = [ c \in ConnIds |->
                        IF c = 1
                        THEN [ MasterConnection_init(
                                   MasterConnection_create(DefaultK), 1, 1, 0, DefaultT3)
                                 EXCEPT !.isUsed = TRUE, !.isRunning = TRUE,
                                        !.isActive = TRUE, !.sendCount = s ]
                        ELSE MasterConnection_create(DefaultK) ]
         /\ txCount = [ c \in ConnIds |-> IF c = 1 THEN s ELSE 0 ]
    /\ highQ = [ i \in QueueIds |->
                   HighPriorityASDUQueue_resetConnectionQueue(
                       HighPriorityASDUQueue_initialize(MaxHighQueueSize)) ]
    /\ pc = [ c \in ConnIds |-> "idle" ]
    /\ wire = [ c \in ConnIds |-> << >> ]
    /\ lastFrame = [ c \in ConnIds |-> NoFrame ]
    /\ handoff = NoHandoff
    /\ everSent = 0
    /\ accepted = 1
    /\ HistoryEmpty

\* CS104_Slave_enqueueASDU while the window is examined
WinEnqueue == EnqueueASDU(MaxWinEnqueue)

NextWin ==
    \/ SetK
    \/ WinEnqueue
    \/ DirectSend(1)
    \/ SendNextHigh(1)
    \/ SendNextLow(1)
    \/ RecvAck(1)

SpecWin == InitWin /\ [][NextWin]_vars

(***************************************************************************)
(* Specification of checkSequenceNumber: connection 1 holds a k-buffer of  *)
(* consecutively numbered I-frames, the peer acknowledges.                 *)
(***************************************************************************)
\* connection 1 after it has sent held I-frames that are not acknowledged,
\* the oldest stored at index oldest, the newest numbered sendCount
ConnectionHolding(oldest, held0, sendCount) ==
    LET con == MasterConnection_init(MasterConnection_create(DefaultK), 1, 1, 0, DefaultT3)
    IN  [ con EXCEPT
            !.isUsed = TRUE,
            !.isRunning = TRUE,
            !.isActive = TRUE,
            !.sendCount = sendCount,
            !.oldestSentASDU = IF held0 = 0 THEN NoIndex ELSE oldest,
            !.newestSentASDU = IF held0 = 0 THEN NoIndex
                               ELSE (oldest + held0 - 1) % DefaultK,
            !.sentASDUs =
                [ i \in 0 .. DefaultK - 1 |->
                    LET n == ((i - oldest) % DefaultK) + 1
                    IN  IF n <= held0
                        THEN [ SentASDUSlave0 EXCEPT
                                 !.seqNo = (sendCount + SeqModulus - held0 + n)
                                             % SeqModulus,
                                 !.asdu = ResponseAsdu ]
                        ELSE SentASDUSlave0 ] ]

InitSeq ==
    /\ serverMode = SINGLE_REDUNDANCY_GROUP
    /\ lastOp = [ op |-> "init" ]
    /\ now = 0
    /\ lowQ = [ i \in QueueIds |-> MessageQueue_initialize(MaxQueueSize) ]
    /\ enqLog = [ i \in QueueIds |-> << >> ]
    /\ held = << >>
    /\ fault = FALSE
    /\ conParameters = DefaultParameters
    /\ \E oldest \in 0 .. DefaultK - 1, held0 \in 0 .. DefaultK,
          sendCount \in SeqSendCounts :
         /\ conns = [ c \in ConnIds |->
                        IF c = 1
                        THEN ConnectionHolding(oldest, held0, sendCount)
                        ELSE MasterConnection_create(DefaultK) ]
         /\ txCount = [ c \in ConnIds |-> 0 ]
    /\ highQ = [ i \in QueueIds |->
                   HighPriorityASDUQueue_resetConnectionQueue(
                       HighPriorityASDUQueue_initialize(MaxHighQueueSize)) ]
    /\ pc = [ c \in ConnIds |-> "idle" ]
    /\ wire = [ c \in ConnIds |-> << >> ]
    /\ lastFrame = [ c \in ConnIds |-> NoFrame ]
    /\ handoff = NoHandoff
    /\ everSent = 0
    /\ accepted = 1
    /\ HistoryEmpty

\* handleMessage, S-frame, recorded
CheckSeqNo == RecvAckOf(1, TRUE)

NextSeq == CheckSeqNo

SpecSeq == InitSeq /\ [][NextSeq]_vars

(***************************************************************************)
(* Specification of the MessageQueue alone: every operation of the queue   *)
(* with ASDUs of varying size, on queue 1.                                 *)
(***************************************************************************)
InitQ ==
    /\ lastOp = [ op |-> "init" ]
    /\ serverMode = SINGLE_REDUNDANCY_GROUP
    /\ SlaveCreated

\* MessageQueue_enqueueASDU(queue 1, asdu)
QEnqueue ==
    /\ ~fault
    /\ Len(enqLog[1]) < MaxEnqueue
    /\ \E asduSize \in AsduSizes, g \in GarbageHeaders :
         LET asdu == Len(enqLog[1]) + 1
         IN  /\ lowQ' = [ lowQ EXCEPT ![1] =
                            MessageQueue_enqueueASDU(lowQ[1], asdu, asduSize, now, g) ]
             /\ enqLog' = [ enqLog EXCEPT ![1] =
                              Append(@, [ asdu |-> asdu, size |-> asduSize ]) ]
             /\ lastOp' = [ op |-> "enqueue", asdu |-> asdu ]
    /\ UNCHANGED <<now, held, fault>>
    /\ UNCHANGED svars
    /\ UNCHANGED <<xvars, locks, slave, rx>>

\* MessageQueue_getNextWaitingASDU(queue 1), the handle kept as a k-buffer does
QNextWaiting ==
    /\ ~fault
    /\ \E g \in GarbageHeaders :
         LET r == MessageQueue_getNextWaitingASDU(lowQ[1], g)
         IN  /\ lowQ' = [ lowQ EXCEPT ![1] = r.q ]
             /\ held' = IF r.buffer # NULL
                        THEN Append(held, [ queueEntry |-> r.queueEntry,
                                            entryTime  |-> r.timestamp,
                                            asdu       |-> r.asdu ])
                        ELSE held
             /\ fault' = r.fault
             /\ lastOp' = [ op |-> "next_waiting", asdu |-> r.asdu ]
    /\ UNCHANGED <<now, enqLog>>
    /\ UNCHANGED svars
    /\ UNCHANGED <<xvars, locks, slave, rx>>

\* MessageQueue_markAsduAsConfirmed(queue 1, oldest handle)
QMarkConfirmed ==
    /\ ~fault
    /\ held # << >>
    /\ lowQ' = [ lowQ EXCEPT ![1] =
                   MessageQueue_markAsduAsConfirmed(
                       lowQ[1], Head(held).queueEntry, Head(held).entryTime) ]
    /\ lastOp' = [ op         |-> "mark_confirmed",
                   queueEntry |-> Head(held).queueEntry,
                   applies    |-> /\ lowQ[1].entryCounter > 0
                                  /\ Head(held).entryTime >= lowQ[1].oldestTimestamp ]
    /\ held' = Tail(held)
    /\ UNCHANGED <<now, enqLog, fault>>
    /\ UNCHANGED svars
    /\ UNCHANGED <<xvars, locks, slave, rx>>

\* MessageQueue_setWaitingForTransmissionWhenNotConfirmed(queue 1): the
\* connection that held the handles is gone
QRevert ==
    /\ ~fault
    /\ \E g \in GarbageHeaders :
         LET r == MessageQueue_setWaitingForTransmissionWhenNotConfirmed(lowQ[1], g)
         IN  /\ lowQ' = [ lowQ EXCEPT ![1] = r.q ]
             /\ fault' = r.fault
    /\ lastOp' = [ op |-> "revert", asdu |-> Garbled ]
    /\ held' = << >>
    /\ UNCHANGED <<now, enqLog>>
    /\ UNCHANGED svars
    /\ UNCHANGED <<xvars, locks, slave, rx>>

\* MessageQueue_releaseAllQueuedASDUs(queue 1)
QReleaseAll ==
    /\ ~fault
    /\ lowQ[1].entryCounter > 0
    /\ lowQ' = [ lowQ EXCEPT ![1] = MessageQueue_releaseAllQueuedASDUs(lowQ[1]) ]
    /\ lastOp' = [ op |-> "release_all", asdu |-> Garbled ]
    /\ held' = << >>
    /\ UNCHANGED <<now, enqLog, fault>>
    /\ UNCHANGED svars
    /\ UNCHANGED <<xvars, locks, slave, rx>>

\* the clock advances
QTick ==
    /\ ~fault
    /\ now < MaxTime
    /\ now' = now + 1
    /\ UNCHANGED <<lowQ, enqLog, held, lastOp, fault>>
    /\ UNCHANGED svars
    /\ UNCHANGED <<xvars, locks, slave, rx>>

NextQ ==
    \/ QEnqueue
    \/ QNextWaiting
    \/ QMarkConfirmed
    \/ QRevert
    \/ QReleaseAll
    \/ QTick

SpecQ == InitQ /\ [][NextQ]_vars

(***************************************************************************)
(* Specification of one HighPriorityASDUQueue: handlers enqueue responses  *)
(* of mixed sizes and the connection's worker takes them out.              *)
(***************************************************************************)
InitH ==
    /\ lastOp = [ op |-> "init" ]
    /\ serverMode = SINGLE_REDUNDANCY_GROUP
    /\ SlaveCreated

\* HighPriorityASDUQueue_enqueue(queue 1, asdu); the ASDUs offered are
\* numbered 1, 2, ...
HEnqueue ==
    /\ \E asduSize \in HighAsduSizes :
         LET asdu == IF lastOp.op = "init" THEN 1 ELSE lastOp.offered + 1
             e == HighPriorityASDUQueue_enqueue(highQ[1], asdu, asduSize)
         IN  /\ asdu <= MaxHighEnqueue
             /\ highQ' = [ highQ EXCEPT ![1] = e.q ]
             /\ highLog' = IF e.enqueued
                           THEN [ highLog EXCEPT !.accepted = Append(@, asdu) ]
                           ELSE highLog
             /\ lastOp' = [ op |-> "high_enqueue", asdu |-> asdu,
                            offered |-> asdu, enqueued |-> e.enqueued,
                            before |-> highQ[1] ]
    /\ UNCHANGED <<now, lowQ, enqLog, held, fault>>
    /\ UNCHANGED <<serverMode, conParameters, conns, pc, wire, txCount,
                   lastFrame, handoff, everSent, accepted>>
    /\ UNCHANGED <<ctl, dispatched, locks, slave, rx>>

\* HighPriorityASDUQueue_getNextASDU(queue 1) where
\* HighPriorityASDUQueue_isAsduAvailable is true
HNext ==
    /\ HighPriorityASDUQueue_isAsduAvailable(highQ[1])
    /\ LET h == HighPriorityASDUQueue_getNextASDU(highQ[1])
       IN  /\ highQ' = [ highQ EXCEPT ![1] = h.q ]
           /\ highLog' = [ highLog EXCEPT !.returned = Append(@, h.asdu) ]
           /\ lastOp' = [ op |-> "high_next", asdu |-> h.asdu,
                          offered |-> IF lastOp.op = "init" THEN 0
                                      ELSE lastOp.offered,
                          enqueued |-> FALSE, before |-> highQ[1] ]
    /\ UNCHANGED <<now, lowQ, enqLog, held, fault>>
    /\ UNCHANGED <<serverMode, conParameters, conns, pc, wire, txCount,
                   lastFrame, handoff, everSent, accepted>>
    /\ UNCHANGED <<ctl, dispatched, locks, slave, rx>>

NextH ==
    \/ HEnqueue
    \/ HNext

SpecH == InitH /\ [][NextH]_vars

(***************************************************************************)
(* Reception: handleMessage for I-format frames and the w check that the   *)
(* worker loop (and its threadless twin) runs after every received frame.  *)
(***************************************************************************)
\* sendSMessage: an S-format frame whose N(R) bytes hold receiveCount; a
\* failed write clears isRunning
sendSMessage(con, ok) ==
    LET b4 == (con.receiveCount % 128) * 2
        b5 == con.receiveCount \div 128
    IN  [ con |-> IF ok THEN con ELSE [ con EXCEPT !.isRunning = FALSE ],
          nr  |-> IF ok THEN FrameRecvSequenceNumber(b4, b5) ELSE NULL ]

\* handleMessage, I-format, giving N(R) to checkSequenceNumber before N(S)
\* is compared with receiveCount
Mut_handleIMessage(con, frameSendSequenceNumber, frameRecvSequenceNumber, currentTime) ==
    LET con1 == IF ~con.timeoutT2Triggered
                THEN [ con EXCEPT !.timeoutT2Triggered = TRUE,
                                  !.lastConfirmationTime = currentTime ]
                ELSE con
        r == checkSequenceNumber(con1, frameRecvSequenceNumber)
    IN  IF ~r.seqNoIsValid \/ frameSendSequenceNumber # con1.receiveCount
        THEN [ con |-> r.con, inSequence |-> FALSE, marks |-> r.marks ]
        ELSE [ con |-> [ r.con EXCEPT
                           !.receiveCount = (@ + 1) % SeqModulus,
                           !.unconfirmedReceivedIMessages = @ + 1 ],
               inSequence |-> TRUE, marks |-> r.marks ]

\* handleMessage, I-format, up to the counters: T2 is started, N(S) is
\* compared with receiveCount, N(R) is given to checkSequenceNumber, and
\* only then are receiveCount and unconfirmedReceivedIMessages advanced
handleIMessage(con, frameSendSequenceNumber, frameRecvSequenceNumber, currentTime) ==
    LET con1 == IF ~con.timeoutT2Triggered
                THEN [ con EXCEPT !.timeoutT2Triggered = TRUE,
                                  !.lastConfirmationTime = currentTime ]
                ELSE con
        r == checkSequenceNumber(con1, frameRecvSequenceNumber)
    IN  IF frameSendSequenceNumber # con1.receiveCount
        THEN [ con |-> con1, inSequence |-> FALSE, marks |-> << >> ]
        ELSE IF ~r.seqNoIsValid
        THEN [ con |-> r.con, inSequence |-> FALSE, marks |-> r.marks ]
        ELSE [ con |-> [ r.con EXCEPT
                           !.receiveCount = (@ + 1) % SeqModulus,
                           !.unconfirmedReceivedIMessages = @ + 1 ],
               inSequence |-> TRUE, marks |-> r.marks ]

\* the w check acknowledging one frame late
Mut_WindowCheck(con, currentTime, w, ok) ==
    IF con.unconfirmedReceivedIMessages > w
    THEN LET s == sendSMessage(
                    [ con EXCEPT !.lastConfirmationTime = currentTime,
                                 !.unconfirmedReceivedIMessages = 0,
                                 !.timeoutT2Triggered = FALSE ], ok)
         IN  [ con |-> s.con, sent |-> TRUE, nr |-> s.nr ]
    ELSE [ con |-> con, sent |-> FALSE, nr |-> NULL ]

\* connectionHandlingThread / MasterConnection_handleTcpConnection after
\* handleMessage: with w or more unconfirmed I-frames an S-frame is sent
WindowCheck(con, currentTime, w, ok) ==
    IF con.unconfirmedReceivedIMessages >= w
    THEN LET s == sendSMessage(
                    [ con EXCEPT !.lastConfirmationTime = currentTime,
                                 !.unconfirmedReceivedIMessages = 0,
                                 !.timeoutT2Triggered = FALSE ], ok)
         IN  [ con |-> s.con, sent |-> TRUE, nr |-> s.nr ]
    ELSE [ con |-> con, sent |-> FALSE, nr |-> NULL ]

\* the N(R) values connection c has written to its socket in the session
\* (the last S-frame's and the last I-frame's), and 0 for the session's start
AcknowledgedByC(c) ==
    {0} \cup { n \in { ctl[c].nr, lastFrame[c].nr } : n # NULL }

\* the I-frames connection c has received since the last acknowledgement it
\* wrote (S-frame or I-frame), counted on the frames themselves
UnackedReceived(c) ==
    LET d == { (conns[c].receiveCount + SeqModulus - a) % SeqModulus :
                 a \in AcknowledgedByC(c) }
    IN  CHOOSE m \in d : \A x \in d : m <= x

\* the numbers a received I-frame may carry as N(S): the expected one and
\* its neighbours
SendSeqCandidates(con) ==
    { con.receiveCount,
      (con.receiveCount + 1) % SeqModulus,
      (con.receiveCount + SeqModulus - 1) % SeqModulus }

\* the worker of connection c receives an I-format frame: handleMessage
\* (the ASDU is handed to handleASDU when the connection is active, whose
\* handler may answer with IMasterConnection_sendASDU), then the w check;
\* asdu is the response of the handler, recorded in the history when log,
\* and sends bounds the I-frames written
RecvIWith(c, limit, sends, asdu, log) ==
    /\ ~fault
    /\ conns[c].isUsed /\ conns[c].isRunning /\ pc[c] = "idle"
    /\ conns[c].receiveCount < limit
    /\ \E ns \in SendSeqCandidates(conns[c]), nr \in AckCandidates(conns[c]),
          validAsdu \in BOOLEAN, respond \in BOOLEAN,
          okI \in BOOLEAN, okS \in BOOLEAN, asduSize \in ResponseSizes :
         LET h == handleIMessage(conns[c], ns, nr, now)
             handled == h.inSequence /\ h.con.isActive
             answers == handled /\ validAsdu /\ respond
             direct == answers /\ ~isSentBufferFull(h.con)
             r == sendASDU(h.con, 0, NULL, asdu, now, okI)
             con2 == IF direct THEN r.con ELSE h.con
             result == h.inSequence /\ (handled => validAsdu)
             con3 == IF result
                     THEN resetT3Timeout(con2, now, conParameters.t3)
                     ELSE [ con2 EXCEPT !.isRunning = FALSE ]
             wc == WindowCheck(con3, now, conParameters.w, okS)
             qid == conns[c].highPrioQueue
             e == HighPriorityASDUQueue_enqueue(highQ[qid], asdu,
                                                asduSize)
         IN  /\ direct => everSent < sends
             \* inputs that are not read are held at one value
             /\ ~handled => validAsdu /\ ~respond
             /\ ~validAsdu => ~respond
             /\ ~direct => okI
             /\ ~wc.sent => okS
             /\ conns' = [ conns EXCEPT ![c] = wc.con ]
             /\ lowQ' = [ lowQ EXCEPT ![conns[c].lowPrioQueue] =
                            ApplyMarks(@, h.marks) ]
             /\ dispatched' = [ dispatched EXCEPT ![c] =
                                  IF handled THEN @ + 1 ELSE @ ]
             /\ IF direct
                THEN Transmitted(c, r, asdu, "direct")
                ELSE UNCHANGED <<txCount, lastFrame, wire, everSent>>
             /\ highQ' = IF answers /\ ~direct
                         THEN [ highQ EXCEPT ![qid] = e.q ]
                         ELSE highQ
             /\ ctl' = [ ctl EXCEPT ![c] =
                         LET c1 == IF h.inSequence /\ UnackedReceived(c) = 0
                                   THEN [ @ EXCEPT !.unackedSince = now ]
                                   ELSE @
                             c2 == IF result THEN Handled(c1, now) ELSE c1
                             c3 == IF log /\ direct /\ r.ns # NULL
                                   THEN [ c2 EXCEPT !.responses = Append(@, asdu) ]
                                   ELSE c2
                         IN  IF wc.sent /\ wc.nr # NULL
                             THEN WroteS(c3, wc.nr)
                             ELSE c3 ]
             /\ lastOp' = [ op |-> "recv_I", c |-> c, ns |-> ns, nr |-> nr,
                            inSequence |-> h.inSequence,
                            answered |-> direct /\ r.ns # NULL,
                            windowAck |-> wc.sent /\ wc.nr # NULL ]
    /\ UNCHANGED <<now, enqLog, held, fault, serverMode, conParameters, pc,
                   handoff, accepted, highLog, locks, slave, rx>>

RecvIOf(c, limit) == RecvIWith(c, limit, MaxRecvSend, ResponseAsdu, FALSE)

RecvI(c) == RecvIOf(c, MaxRecv)

\* the worker of connection c receives an S-format frame
RecvS(c) == RecvAckOf(c, TRUE)

(***************************************************************************)
(* Specification of the receiving side: one or two connections of the      *)
(* single redundancy group receive I-, S- and U-format frames while the    *)
(* application enqueues and the workers drain the queue.                   *)
(***************************************************************************)
InitRecv ==
    /\ lastOp = [ op |-> "init" ]
    /\ serverMode = SINGLE_REDUNDANCY_GROUP
    /\ SlaveCreated

RecvEnqueue == EnqueueASDU(MaxRecvEnqueue)

\* one master connects
RecvAccept == accepted = 0 /\ Accept(1)

NextRecv ==
    \/ RecvAccept
    \/ \E c \in ConnIds : StartDT_DeactivatePeers(c)
    \/ \E c \in ConnIds : StartDT_Activate(c)
    \/ \E c \in ConnIds : StopDT(c)
    \/ \E c \in ConnIds : RecvI(c)
    \/ \E c \in ConnIds : RecvS(c)
    \/ \E c \in ConnIds : SendNextLow(c)
    \/ RecvEnqueue

SpecRecv == InitRecv /\ [][NextRecv]_vars

(***************************************************************************)
(* Timers: handleTimeouts, which the worker loop (and                      *)
(* MasterConnection_executePeriodicTasks) runs against Hal_getTimeInMs().  *)
(***************************************************************************)
\* checkT3Timeout expiring at the deadline itself
Mut_checkT3Timeout(con, currentTime, t3) ==
    LET con1 == IF con.nextT3Timeout > currentTime + t3 * 1000
                THEN resetT3Timeout(con, currentTime, t3)
                ELSE con
    IN  [ con |-> con1, expired |-> currentTime >= con1.nextT3Timeout ]

\* checkT3Timeout: a deadline further away than t3 is replaced; the
\* deadline has expired when the clock is past it
checkT3Timeout(con, currentTime, t3) ==
    LET con1 == IF con.nextT3Timeout > currentTime + t3 * 1000
                THEN resetT3Timeout(con, currentTime, t3)
                ELSE con
    IN  [ con |-> con1, expired |-> currentTime > con1.nextT3Timeout ]

\* handleTimeouts, T2 reading the deadline late
Mut_T2Expired(con, currentTime, t2) ==
    /\ con.unconfirmedReceivedIMessages > 0
    /\ currentTime > con.lastConfirmationTime
    /\ currentTime - con.lastConfirmationTime > t2 * 1000

\* handleTimeouts, T2: I-frames are unconfirmed and t2 seconds or more have
\* passed since lastConfirmationTime
T2Expired(con, currentTime, t2) ==
    /\ con.unconfirmedReceivedIMessages > 0
    /\ currentTime > con.lastConfirmationTime
    /\ currentTime - con.lastConfirmationTime >= t2 * 1000

\* handleTimeouts, T1 reading the deadline late
Mut_T1Expired(con, currentTime, t1) ==
    /\ con.oldestSentASDU # NoIndex
    /\ currentTime > con.sentASDUs[con.oldestSentASDU].sentTime
    /\ currentTime - con.sentASDUs[con.oldestSentASDU].sentTime > t1 * 1000

\* handleTimeouts, T1: the k-buffer is not empty and t1 seconds or more have
\* passed since its oldest I-frame was sent (the sent time is read where it
\* is already known to lie in the past, so it is never replaced)
T1Expired(con, currentTime, t1) ==
    /\ con.oldestSentASDU # NoIndex
    /\ currentTime > con.sentASDUs[con.oldestSentASDU].sentTime
    /\ currentTime - con.sentASDUs[con.oldestSentASDU].sentTime >= t1 * 1000

\* handleTimeouts: T3 (a TESTFR_ACT, or the end of the connection after
\* more than two unanswered ones), T2 (an S-frame for the I-frames not yet
\* acknowledged), T1 (the end of the connection when the oldest sent I-frame
\* is not acknowledged in time); outstandingTestFRConMessages is a 3-bit
\* field
handleTimeouts(con, currentTime, p, okT, okS) ==
    LET t3r == checkT3Timeout(con, currentTime, p.t3)
        closeT3 == t3r.expired /\ t3r.con.outstandingTestFRConMessages > 2
        sendT == t3r.expired /\ ~closeT3
        con1 == IF sendT
                THEN resetT3Timeout(
                       [ t3r.con EXCEPT
                           !.isRunning = IF okT THEN @ ELSE FALSE,
                           !.outstandingTestFRConMessages = (@ + 1) % 8 ],
                       currentTime, p.t3)
                ELSE t3r.con
        con2 == IF /\ con1.unconfirmedReceivedIMessages > 0
                   /\ con1.lastConfirmationTime # UINT64_MAX
                   /\ con1.lastConfirmationTime > currentTime
                THEN [ con1 EXCEPT !.lastConfirmationTime = currentTime ]
                ELSE con1
        fireT2 == T2Expired(con2, currentTime, p.t2)
        s == sendSMessage([ con2 EXCEPT !.lastConfirmationTime = currentTime,
                                        !.unconfirmedReceivedIMessages = 0,
                                        !.timeoutT2Triggered = FALSE ], okS)
        con3 == IF fireT2 THEN s.con ELSE con2
        closeT1 == T1Expired(con3, currentTime, p.t1)
    IN  [ con |-> con3,
          timeoutsOk |-> ~closeT3 /\ ~closeT1,
          closeT3 |-> closeT3,
          closeT1 |-> closeT1,
          sendT |-> sendT,
          fireT2 |-> fireT2,
          testfr |-> sendT /\ okT,
          sframe |-> IF fireT2 THEN s.nr ELSE NULL ]

\* the worker of connection c runs handleTimeouts and clears isRunning when
\* it returns false
HandleTimeouts(c) ==
    /\ ~fault
    /\ conns[c].isUsed /\ conns[c].isRunning /\ pc[c] = "idle"
    /\ \E okT \in BOOLEAN, okS \in BOOLEAN :
         LET r == handleTimeouts(conns[c], now, conParameters, okT, okS)
         IN  \* inputs that are not read are held at one value
             /\ ~r.sendT => okT
             /\ ~r.fireT2 => okS
             /\ conns' = [ conns EXCEPT ![c] =
                             IF r.timeoutsOk
                             THEN r.con
                             ELSE [ r.con EXCEPT !.isRunning = FALSE ] ]
             /\ ctl' = [ ctl EXCEPT ![c] =
                         LET c1 == IF r.testfr
                                   THEN [ WroteU(@, "TESTFR_ACT") EXCEPT
                                            !.testfr = @ + 1,
                                            !.idleSince = now ]
                                   ELSE @
                         IN  IF r.sframe # NULL
                             THEN WroteS(c1, r.sframe)
                             ELSE c1 ]
             /\ lastOp' = [ op |-> "timeouts", c |-> c,
                            n |-> IF lastOp.op = "timeouts"
                                  THEN 1 - lastOp.n ELSE 0,
                            closeT3 |-> r.closeT3, closeT1 |-> r.closeT1,
                            testfr |-> r.testfr, sframe |-> r.sframe # NULL ]
    /\ UNCHANGED <<now, lowQ, enqLog, held, fault, serverMode, conParameters,
                   highQ, pc, wire, txCount, lastFrame, handoff, everSent,
                   accepted, highLog, dispatched, locks, slave, rx>>

\* handleMessage, TESTFR_CON
RecvTestFrCon(c) ==
    /\ ~fault
    /\ conns[c].isUsed /\ conns[c].isRunning /\ pc[c] = "idle"
    /\ conns' = [ conns EXCEPT ![c] =
                    resetT3Timeout([ @ EXCEPT !.outstandingTestFRConMessages = 0 ],
                                   now, conParameters.t3) ]
    /\ ctl' = [ ctl EXCEPT ![c] =
                  Handled([ @ EXCEPT !.answered = ctl[c].testfr ], now) ]
    /\ UNCHANGED <<now, lastOp, lowQ, enqLog, held, fault, serverMode,
                   conParameters, highQ, pc, wire, txCount, lastFrame, handoff,
                   everSent, accepted, highLog, dispatched, locks, slave, rx>>

\* Hal_getTimeInMs() advances while a connection is open
TickTo(limit) ==
    /\ now < limit
    /\ \E c \in ConnIds : conns[c].isUsed /\ conns[c].isRunning
    /\ now' = now + TickMs
    /\ UNCHANGED <<lowQ, enqLog, held, lastOp, fault>>
    /\ UNCHANGED <<svars, xvars, locks, slave, rx>>

(***************************************************************************)
(* Specification of T2: one connection receives I-frames, answers some of  *)
(* them and checks its timeouts while the clock advances.                  *)
(***************************************************************************)
InitTime ==
    /\ lastOp = [ op |-> "init" ]
    /\ serverMode = SINGLE_REDUNDANCY_GROUP
    /\ SlaveCreated

TimedRecvI(c) == RecvIOf(c, MaxTimedRecv)

Tick == TickTo(MaxT2Clock)

NextTime ==
    \/ RecvAccept
    \/ \E c \in ConnIds : StartDT_DeactivatePeers(c)
    \/ \E c \in ConnIds : StartDT_Activate(c)
    \/ \E c \in ConnIds : TimedRecvI(c)
    \/ \E c \in ConnIds : HandleTimeouts(c)
    \/ Tick

SpecTime == InitTime /\ [][NextTime]_vars

(***************************************************************************)
(* Specification of T3: one connection receives S- and U-format frames and *)
(* checks its timeouts while the clock advances.                           *)
(***************************************************************************)
TickIdle == TickTo(MaxClock)

NextIdle ==
    \/ RecvAccept
    \/ \E c \in ConnIds : StartDT_DeactivatePeers(c)
    \/ \E c \in ConnIds : StartDT_Activate(c)
    \/ \E c \in ConnIds : RecvS(c)
    \/ \E c \in ConnIds : RecvTestFrCon(c)
    \/ \E c \in ConnIds : HandleTimeouts(c)
    \/ TickIdle

SpecIdle == InitTime /\ [][NextIdle]_vars

(***************************************************************************)
(* Specification of T1: one connection sends the queue's ASDUs, receives   *)
(* acknowledgements and checks its timeouts while the clock advances.      *)
(***************************************************************************)
TickT1 == TickTo(MaxT1Clock)

NextT1 ==
    \/ RecvAccept
    \/ \E c \in ConnIds : StartDT_DeactivatePeers(c)
    \/ \E c \in ConnIds : StartDT_Activate(c)
    \/ \E c \in ConnIds : RecvS(c)
    \/ \E c \in ConnIds : SendNextLow(c)
    \/ \E c \in ConnIds : HandleTimeouts(c)
    \/ RecvEnqueue
    \/ TickT1

SpecT1 == InitTime /\ [][NextT1]_vars

(***************************************************************************)
(* Specification of the STARTDT handshake and the drain that follows: one  *)
(* master connects and sends STARTDT_ACT, the application enqueues ASDUs   *)
(* on the activated connection, and the worker sends them.  The worker's   *)
(* loop handles at most one received frame per pass and then calls         *)
(* sendWaitingASDUs while the connection runs and is active, so received   *)
(* frames cannot starve the drain: SendNextLow is strongly fair.  The      *)
(* worker also finishes a STARTDT_ACT it has begun to handle.              *)
(***************************************************************************)
LiveEnqueue ==
    /\ conns[1].isUsed /\ conns[1].isRunning /\ conns[1].isActive
    /\ EnqueueASDU(MaxLiveEnqueue)

NextLive ==
    \/ RecvAccept
    \/ \E c \in ConnIds : StartDT_DeactivatePeers(c)
    \/ \E c \in ConnIds : StartDT_Activate(c)
    \/ \E c \in ConnIds : StopDT(c)
    \/ \E c \in ConnIds : RecvS(c)
    \/ \E c \in ConnIds : SendNextLow(c)
    \/ LiveEnqueue

SpecLive ==
    /\ InitRecv
    /\ [][NextLive]_vars
    /\ \A c \in ConnIds : SF_vars(SendNextLow(c)) /\ WF_vars(StartDT_Activate(c))

(***************************************************************************)
(* The drain and the handler's answer as the threads run them: isActive is *)
(* read first, outside every lock, and the I-frame is written in a later   *)
(* step, so that the worker of another connection can run                  *)
(* CS104_Slave_activate in between.                                        *)
(***************************************************************************)
\* connectionHandlingThread: "if (self->isRunning) if (self->isActive)"
\* before sendWaitingASDUs
DrainCheck(c) ==
    /\ ~fault
    /\ conns[c].isUsed /\ conns[c].isRunning /\ pc[c] = "idle"
    /\ conns[c].isActive
    /\ pc' = [ pc EXCEPT ![c] = "drain" ]
    /\ UNCHANGED <<now, lowQ, enqLog, held, lastOp, fault, serverMode,
                   conParameters, conns, highQ, wire, txCount, lastFrame,
                   handoff, everSent, accepted>>
    /\ UNCHANGED <<xvars, locks, slave, rx>>

\* sendWaitingASDUs with an empty high-priority queue:
\* sendNextLowPriorityASDU
DrainSend(c) ==
    /\ ~fault
    /\ pc[c] = "drain"
    /\ ~HighPriorityASDUQueue_isAsduAvailable(highQ[conns[c].highPrioQueue])
    /\ \E g \in GarbageHeaders, ok \in BOOLEAN :
         LET qid == conns[c].lowPrioQueue
             w == MessageQueue_getNextWaitingASDU(lowQ[qid], g)
             r == sendASDU(conns[c], w.timestamp, w.queueEntry, w.asdu, now, ok)
             sends == ~isSentBufferFull(conns[c]) /\ w.buffer # NULL
         IN  /\ sends => everSent < MaxRaceSend
             /\ ~sends => ok
             /\ IF isSentBufferFull(conns[c])
                THEN UNCHANGED <<lowQ, fault>>
                ELSE /\ lowQ' = [ lowQ EXCEPT ![qid] = w.q ]
                     /\ fault' = w.fault
             /\ IF sends
                THEN /\ conns' = [ conns EXCEPT ![c] = r.con ]
                     /\ Transmitted(c, r, w.asdu, "low")
                ELSE UNCHANGED <<conns, txCount, lastFrame, wire, everSent>>
    /\ pc' = [ pc EXCEPT ![c] = "idle" ]
    /\ UNCHANGED <<now, lastOp, enqLog, held, serverMode, conParameters, highQ,
                   handoff, accepted>>
    /\ UNCHANGED <<xvars, locks, slave, rx>>

\* sendASDUInternal: "if (self->isActive)"
AnswerCheck(c) ==
    /\ ~fault
    /\ conns[c].isUsed /\ conns[c].isRunning /\ pc[c] = "idle"
    /\ conns[c].isActive
    /\ pc' = [ pc EXCEPT ![c] = "answer" ]
    /\ UNCHANGED <<now, lowQ, enqLog, held, lastOp, fault, serverMode,
                   conParameters, conns, highQ, wire, txCount, lastFrame,
                   handoff, everSent, accepted>>
    /\ UNCHANGED <<xvars, locks, slave, rx>>

\* sendASDUInternal under sentASDUsLock: sendASDU, or
\* HighPriorityASDUQueue_enqueue when the k-buffer is full
AnswerSend(c) ==
    /\ ~fault
    /\ pc[c] = "answer"
    /\ \E asduSize \in ResponseSizes, ok \in BOOLEAN :
         IF ~isSentBufferFull(conns[c])
         THEN LET r == sendASDU(conns[c], 0, NULL, ResponseAsdu, now, ok)
              IN  /\ everSent < MaxRaceSend
                  /\ conns' = [ conns EXCEPT ![c] = r.con ]
                  /\ Transmitted(c, r, ResponseAsdu, "direct")
                  /\ UNCHANGED highQ
         ELSE LET qid == conns[c].highPrioQueue
                  e == HighPriorityASDUQueue_enqueue(highQ[qid], ResponseAsdu, asduSize)
              IN  /\ highQ' = [ highQ EXCEPT ![qid] = e.q ]
                  /\ UNCHANGED <<conns, txCount, lastFrame, wire, everSent>>
    /\ pc' = [ pc EXCEPT ![c] = "idle" ]
    /\ UNCHANGED <<now, lastOp, lowQ, enqLog, held, fault, serverMode,
                   conParameters, handoff, accepted>>
    /\ UNCHANGED <<xvars, locks, slave, rx>>

(***************************************************************************)
(* Specification of two masters of the single redundancy group: both       *)
(* connect and send STARTDT_ACT while the workers drain the queue and the  *)
(* handlers answer.                                                        *)
(***************************************************************************)
RaceEnqueue == EnqueueASDU(MaxRaceEnqueue)

NextRace ==
    \/ Accept(1)
    \/ \E c \in ConnIds : StartDT_DeactivatePeers(c)
    \/ \E c \in ConnIds : StartDT_Activate(c)
    \/ \E c \in ConnIds : StopDT(c)
    \/ \E c \in ConnIds : DrainCheck(c)
    \/ \E c \in ConnIds : DrainSend(c)
    \/ \E c \in ConnIds : AnswerCheck(c)
    \/ \E c \in ConnIds : AnswerSend(c)
    \/ RaceEnqueue

SpecRace == Init /\ [][NextRace]_vars

(***************************************************************************)
(* Semaphores.  The slave has one openConnectionsLock, every connection has *)
(* a sentASDUsLock for its k-buffer, every MessageQueue and every           *)
(* HighPriorityASDUQueue has a queueLock.  A function of the source is      *)
(* represented by the sequences of Semaphore_wait and Semaphore_post calls  *)
(* its control paths make, the functions it calls included; which path a    *)
(* call takes is left open.                                                 *)
(***************************************************************************)
OpenConnectionsLock == [ lock |-> "openConnectionsLock", of |-> 0 ]

SentASDUsLock(c) == [ lock |-> "sentASDUsLock", of |-> c ]

MessageQueueLock(q) == [ lock |-> "MessageQueue.queueLock", of |-> q ]

HighPriorityQueueLock(q) ==
    [ lock |-> "HighPriorityASDUQueue.queueLock", of |-> q ]

Semaphore_wait(l) == [ call |-> "wait", lock |-> l ]

Semaphore_post(l) == [ call |-> "post", lock |-> l ]

\* the paths of one function followed by the paths of the next
Then(S, T) == { s \o t : s \in S, t \in T }

\* MessageQueue_enqueueASDU: the whole body runs under the queue's lock
MessageQueue_enqueueASDU_locks(q) ==
    { << Semaphore_wait(MessageQueueLock(q)),
         Semaphore_post(MessageQueueLock(q)) >> }

\* MessageQueue_isAsduAvailable
MessageQueue_isAsduAvailable_locks(q) ==
    { << Semaphore_wait(MessageQueueLock(q)),
         Semaphore_post(MessageQueueLock(q)) >> }

\* MessageQueue_setWaitingForTransmissionWhenNotConfirmed
MessageQueue_setWaiting_locks(q) ==
    { << Semaphore_wait(MessageQueueLock(q)),
         Semaphore_post(MessageQueueLock(q)) >> }

\* MessageQueue_markAsduAsConfirmed
MessageQueue_markAsduAsConfirmed_locks(q) ==
    { << Semaphore_wait(MessageQueueLock(q)),
         Semaphore_post(MessageQueueLock(q)) >> }

\* HighPriorityASDUQueue_isAsduAvailable
HighPriorityASDUQueue_isAsduAvailable_locks(q) ==
    { << Semaphore_wait(HighPriorityQueueLock(q)),
         Semaphore_post(HighPriorityQueueLock(q)) >> }

\* HighPriorityASDUQueue_enqueue
HighPriorityASDUQueue_enqueue_locks(q) ==
    { << Semaphore_wait(HighPriorityQueueLock(q)),
         Semaphore_post(HighPriorityQueueLock(q)) >> }

\* HighPriorityASDUQueue_resetConnectionQueue
HighPriorityASDUQueue_resetConnectionQueue_locks(q) ==
    { << Semaphore_wait(HighPriorityQueueLock(q)),
         Semaphore_post(HighPriorityQueueLock(q)) >> }

\* the reverse nesting: the queue's lock taken before the k-buffer's
Mut_sendNextLowPriorityASDU_locks(c, q) ==
    { << Semaphore_wait(MessageQueueLock(q)),
         Semaphore_wait(SentASDUsLock(c)),
         Semaphore_post(SentASDUsLock(c)),
         Semaphore_post(MessageQueueLock(q)) >> }

\* sendNextLowPriorityASDU: sentASDUsLock first; with a full k-buffer the
\* function leaves at once, otherwise MessageQueue_lock,
\* MessageQueue_getNextWaitingASDU, sendASDU, MessageQueue_unlock, all with
\* sentASDUsLock held
sendNextLowPriorityASDU_locks(c, q) ==
    { << Semaphore_wait(SentASDUsLock(c)),
         Semaphore_post(SentASDUsLock(c)) >>,
      << Semaphore_wait(SentASDUsLock(c)),
         Semaphore_wait(MessageQueueLock(q)),
         Semaphore_post(MessageQueueLock(q)),
         Semaphore_post(SentASDUsLock(c)) >> }

\* sendNextHighPriorityASDU: the same shape on the high-priority queue
sendNextHighPriorityASDU_locks(c, q) ==
    { << Semaphore_wait(SentASDUsLock(c)),
         Semaphore_post(SentASDUsLock(c)) >>,
      << Semaphore_wait(SentASDUsLock(c)),
         Semaphore_wait(HighPriorityQueueLock(q)),
         Semaphore_post(HighPriorityQueueLock(q)),
         Semaphore_post(SentASDUsLock(c)) >> }

\* the loop of sendWaitingASDUs over the high-priority queue, at most n
\* ASDUs sent: it ends when the queue is empty, or returns out of
\* sendWaitingASDUs (ended FALSE) after a sendNextHighPriorityASDU
RECURSIVE HighPriorityLoop(_, _, _)
HighPriorityLoop(c, q, n) ==
    LET available == HighPriorityASDUQueue_isAsduAvailable_locks(q)
        sent == Then(available, sendNextHighPriorityASDU_locks(c, q))
    IN  { [ path |-> p, ended |-> TRUE ] : p \in available }
        \cup
        ( IF n = 0 THEN {}
          ELSE { [ path |-> p, ended |-> FALSE ] : p \in sent }
               \cup
               { [ path |-> p \o r.path, ended |-> r.ended ] :
                   p \in sent, r \in HighPriorityLoop(c, q, n - 1) } )

\* sendWaitingASDUs: the high-priority loop, then sendNextLowPriorityASDU
\* and MessageQueue_isAsduAvailable
sendWaitingASDUs_locks(c, low, high) ==
    LET loop == HighPriorityLoop(c, high, MaxHighSends)
    IN  { r.path : r \in { x \in loop : ~x.ended } }
        \cup
        Then( { r.path : r \in { x \in loop : x.ended } },
              Then( sendNextLowPriorityASDU_locks(c, low),
                    MessageQueue_isAsduAvailable_locks(low) ) )

\* checkSequenceNumber: the scan of the k-buffer under sentASDUsLock calls
\* MessageQueue_markAsduAsConfirmed for every confirmed entry that came from
\* the low-priority queue, n of them at most
RECURSIVE ConfirmedEntries(_, _)
ConfirmedEntries(q, n) ==
    { << >> }
    \cup
    ( IF n = 0 THEN {}
      ELSE Then( MessageQueue_markAsduAsConfirmed_locks(q),
                 ConfirmedEntries(q, n - 1) ) )

checkSequenceNumber_locks(c, q) ==
    Then( { << Semaphore_wait(SentASDUsLock(c)) >> },
          Then( ConfirmedEntries(q, MaxConfirmed),
                { << Semaphore_post(SentASDUsLock(c)) >> } ) )

\* sendASDUInternal: nothing on an inactive connection; otherwise sendASDU
\* under sentASDUsLock, or with a full k-buffer the lock is released and
\* the ASDU goes to HighPriorityASDUQueue_enqueue
sendASDUInternal_locks(c, q) ==
    { << >>,
      << Semaphore_wait(SentASDUsLock(c)),
         Semaphore_post(SentASDUsLock(c)) >> }
    \cup
    Then( { << Semaphore_wait(SentASDUsLock(c)),
               Semaphore_post(SentASDUsLock(c)) >> },
          HighPriorityASDUQueue_enqueue_locks(q) )

\* handleTimeouts: the T1 check of the k-buffer under sentASDUsLock
handleTimeouts_locks(c) ==
    { << Semaphore_wait(SentASDUsLock(c)),
         Semaphore_post(SentASDUsLock(c)) >> }

\* CS104_Slave_activate: the peers are deactivated under
\* openConnectionsLock in the modes with redundancy groups
CS104_Slave_activate_locks(mode) ==
    IF mode \in {SINGLE_REDUNDANCY_GROUP, MULTIPLE_REDUNDANCY_GROUPS}
    THEN { << Semaphore_wait(OpenConnectionsLock),
              Semaphore_post(OpenConnectionsLock) >> }
    ELSE { << >> }

\* handleMessage: an I-frame goes through checkSequenceNumber and, on an
\* active connection, to the handler, which may answer with
\* IMasterConnection_sendASDU; an S-frame goes through checkSequenceNumber;
\* STARTDT_ACT activates and resets the high-priority queue; the other
\* frames take no semaphore
handleMessage_locks(c, mode, low, high) ==
    Then( checkSequenceNumber_locks(c, low), sendASDUInternal_locks(c, high) )
    \cup
    Then( CS104_Slave_activate_locks(mode),
          HighPriorityASDUQueue_resetConnectionQueue_locks(high) )

\* the reverse nesting: the queue's lock taken before openConnectionsLock
Mut_CS104_Slave_removeConnection_locks(q) ==
    Then( MessageQueue_setWaiting_locks(q),
          { << Semaphore_wait(OpenConnectionsLock),
               Semaphore_post(OpenConnectionsLock) >> } )
    \cup
    { << Semaphore_wait(MessageQueueLock(q)),
         Semaphore_wait(OpenConnectionsLock),
         Semaphore_post(OpenConnectionsLock),
         Semaphore_post(MessageQueueLock(q)) >> }

\* CS104_Slave_removeConnection: under openConnectionsLock, and for an
\* active connection MessageQueue_setWaitingForTransmissionWhenNotConfirmed
CS104_Slave_removeConnection_locks(q) ==
    Then( { << Semaphore_wait(OpenConnectionsLock) >> },
          Then( { << >> } \cup MessageQueue_setWaiting_locks(q),
                { << Semaphore_post(OpenConnectionsLock) >> } ) )

\* CS104_Slave_getOpenConnections
CS104_Slave_getOpenConnections_locks ==
    { << Semaphore_wait(OpenConnectionsLock),
         Semaphore_post(OpenConnectionsLock) >> }

\* the queue of slot i of masterConnections[] in mode
\* CONNECTION_IS_REDUNDANCY_GROUP, from the slot on
RECURSIVE EnqueueToSlots(_)
EnqueueToSlots(i) ==
    IF i > MaxClientConnections THEN { << >> }
    ELSE Then( MessageQueue_enqueueASDU_locks(i), EnqueueToSlots(i + 1) )

\* CS104_Slave_enqueueASDU: the group's queue in mode
\* SINGLE_REDUNDANCY_GROUP; in mode CONNECTION_IS_REDUNDANCY_GROUP the
\* queue of every connection, under openConnectionsLock
CS104_Slave_enqueueASDU_locks(mode) ==
    IF mode = SINGLE_REDUNDANCY_GROUP
    THEN MessageQueue_enqueueASDU_locks(1)
    ELSE Then( { << Semaphore_wait(OpenConnectionsLock) >> },
               Then( EnqueueToSlots(1),
                     { << Semaphore_post(OpenConnectionsLock) >> } ) )

\* connectionHandlingThread of a connection in use: one of the calls of its
\* loop, or CS104_Slave_removeConnection when the loop is left
ConnectionThreadCalls(c) ==
    IF ~conns[c].isUsed THEN {}
    ELSE LET low == conns[c].lowPrioQueue
             high == conns[c].highPrioQueue
         IN  handleMessage_locks(c, serverMode, low, high)
             \cup handleTimeouts_locks(c)
             \cup sendWaitingASDUs_locks(c, low, high)
             \cup CS104_Slave_removeConnection_locks(low)

\* the application: CS104_Slave_enqueueASDU, CS104_Slave_getOpenConnections,
\* IMasterConnection_sendASDU on a connection in use
ApplicationCalls ==
    CS104_Slave_enqueueASDU_locks(serverMode)
    \cup CS104_Slave_getOpenConnections_locks
    \cup UNION { sendASDUInternal_locks(c, conns[c].highPrioQueue) :
                   c \in { x \in ConnIds : conns[x].isUsed } }

Calls(t) ==
    IF t = ApplicationThread THEN ApplicationCalls ELSE ConnectionThreadCalls(t)

\* the semaphores a thread holds
Holding(t) == { locks[t].holding[i] : i \in DOMAIN locks[t].holding }

\* the semaphore a thread is about to wait for
Requests(t) ==
    IF locks[t].todo # << >> /\ Head(locks[t].todo).call = "wait"
    THEN { Head(locks[t].todo).lock }
    ELSE {}

\* a thread enters one of its functions
Call(t) ==
    /\ locks[t] = Idle
    /\ \E path \in Calls(t) \ { << >> } :
         locks' = [ locks EXCEPT ![t].todo = path ]
    /\ UNCHANGED <<qvars, svars, xvars, slave, rx>>

\* Semaphore_wait returns once no thread holds the semaphore
Wait(t) ==
    /\ Requests(t) # {}
    /\ \A l \in Requests(t) :
         /\ \A u \in Threads : l \notin Holding(u)
         /\ locks' = [ locks EXCEPT ![t] =
                         [ holding |-> Append(@.holding, l),
                           todo |-> Tail(@.todo) ] ]
    /\ UNCHANGED <<qvars, svars, xvars, slave, rx>>

\* Semaphore_post
Post(t) ==
    /\ locks[t].todo # << >>
    /\ Head(locks[t].todo).call = "post"
    /\ locks' = [ locks EXCEPT ![t] =
                    [ holding |-> SelectSeq(@.holding,
                                    LAMBDA l : l # Head(locks[t].todo).lock),
                      todo |-> Tail(@.todo) ] ]
    /\ UNCHANGED <<qvars, svars, xvars, slave, rx>>

\* the server thread accepts a connection: getFreeConnection scans
\* masterConnections[] under openConnectionsLock
LockAccept ==
    /\ \A u \in Threads : OpenConnectionsLock \notin Holding(u)
    /\ \E grp \in QueueIds : Accept(grp)

InitLock ==
    /\ lastOp = [ op |-> "init" ]
    /\ serverMode \in {SINGLE_REDUNDANCY_GROUP, CONNECTION_IS_REDUNDANCY_GROUP}
    /\ SlaveCreated

NextLock ==
    \/ LockAccept
    \/ \E t \in Threads : Call(t)
    \/ \E t \in Threads : Wait(t)
    \/ \E t \in Threads : Post(t)

SpecLock == InitLock /\ [][NextLock]_vars

\* a thread inside a function goes on: Semaphore_wait returns, or the
\* thread posts a semaphore
Proceed(t) == Wait(t) \/ Post(t)

\* the scheduling of the threads of SpecLock: a thread that can go on again
\* and again does so (a thread in Semaphore_wait gets the semaphore if it
\* is free again and again)
LockFairness == \A t \in Threads : SF_vars(Proceed(t))

\* a thread enters one of its functions on a path of at most MaxFairPath
\* Semaphore_wait and Semaphore_post calls
FairCall(t) ==
    /\ Call(t)
    /\ Len(locks'[t].todo) <= MaxFairPath

NextLockFair ==
    \/ LockAccept
    \/ \E t \in Threads : FairCall(t)
    \/ \E t \in Threads : Wait(t)
    \/ \E t \in Threads : Post(t)

SpecLockFair == InitLock /\ [][NextLockFair]_vars /\ LockFairness

(***************************************************************************)
(* Specification of the server modes: a slave in one of the three modes    *)
(* accepts, activates, deactivates and drops connections while the         *)
(* application enqueues ASDUs.                                             *)
(***************************************************************************)
InitMode ==
    /\ serverMode \in {SINGLE_REDUNDANCY_GROUP, MULTIPLE_REDUNDANCY_GROUPS,
                       CONNECTION_IS_REDUNDANCY_GROUP}
    /\ lastOp = [ op |-> "init" ]
    /\ SlaveCreated

\* CS104_Slave_enqueueASDU in any server mode
ModeEnqueue == EnqueueASDU(MaxModeEnqueue)

NextMode ==
    \/ \E grp \in QueueIds : Accept(grp)
    \/ \E c \in ConnIds : StartDT_DeactivatePeers(c)
    \/ \E c \in ConnIds : StartDT_Activate(c)
    \/ \E c \in ConnIds : StopDT(c)
    \/ \E c \in ConnIds : PeerDrop(c)
    \/ \E c \in ConnIds : WorkerExit(c)
    \/ ModeEnqueue

SpecMode == InitMode /\ [][NextMode]_vars

(***************************************************************************)
(* Specification of the acceptor in mode MULTIPLE_REDUNDANCY_GROUPS: the   *)
(* application adds redundancy groups and starts the slave, threaded or    *)
(* threadless; then peers connect and are bound to a group or rejected.    *)
(***************************************************************************)
\* the address strings of the peers and of the allowed clients: two IPv4
\* addresses, an IPv6 address that starts with the bytes of the first one,
\* and the IPv6 loopback address as inet_ntop prints it ("::1")
AddressStrings ==
    { Dotted(<<10, 0, 0, 1>>),
      Dotted(<<10, 0, 0, 2>>),
      Colons(<<2560, 1, 2, 3, 4, 5, 6, 7>>),
      Colons(<<NoDigits, NoDigits, 1>>) }

\* the entries CS104_RedundancyGroup_addAllowedClient can make
AllowedClients ==
    { AllowedClient(stack, str) : stack \in StackStructs, str \in AddressStrings }

\* the allowedClients of a group when it is added to the slave: NULL or up
\* to MaxAllowedClients entries
AllowLists ==
    {NoAllowedClients} \cup UNION { [ 1 .. n -> AllowedClients ] : n \in 1 .. MaxAllowedClients }

InitGroup ==
    /\ serverMode = MULTIPLE_REDUNDANCY_GROUPS
    /\ lastOp = [ op |-> "init" ]
    /\ Created
    /\ NoHistory
    /\ slave = SlaveNotStarted

\* CS104_Slave_addRedundancyGroup before the slave is started, of a group
\* with the allowed clients allowedClients; every group gets its pair of
\* queues from initializeRedundancyGroups (queue id = position in the list)
AddRedundancyGroup(allowedClients) ==
    /\ ~slave.isRunning
    /\ serverMode = MULTIPLE_REDUNDANCY_GROUPS
    /\ Len(slave.redundancyGroups) < Cardinality(QueueIds)
    /\ slave' = [ slave EXCEPT !.redundancyGroups =
                    Append(@, RedundancyGroup(allowedClients)) ]
    /\ UNCHANGED <<qvars, svars, xvars, locks, rx>>

\* CS104_Slave_start (threadless = FALSE) or CS104_Slave_startThreadless:
\* initializeRedundancyGroups adds a catch-all group when the application
\* added none
StartSlave(threadless) ==
    /\ ~slave.isRunning
    /\ slave' = [ slave EXCEPT
                    !.redundancyGroups =
                        IF serverMode = MULTIPLE_REDUNDANCY_GROUPS /\ @ = << >>
                        THEN <<RedundancyGroup(NoAllowedClients)>> ELSE @,
                    !.isRunning = TRUE,
                    !.stopRunning = FALSE,
                    !.isThreadlessMode = threadless ]
    /\ UNCHANGED <<qvars, svars, xvars, locks, rx>>

\* serverThread / handleConnectionsThreadless in mode
\* MULTIPLE_REDUNDANCY_GROUPS: a peer with the address ipAddrStr connects
\* while a slot is free.  With a matching group the connection is set up;
\* without one only the threadless acceptor destroys the socket
PeerConnects(ipAddrStr) ==
    /\ slave.isRunning /\ ~slave.stopRunning
    /\ serverMode = MULTIPLE_REDUNDANCY_GROUPS
    /\ getFreeConnection(conns) # NULL
    /\ \E stack \in StackStructs :
         LET matchingGroup == getMatchingRedundancyGroup(
                                  slave.redundancyGroups, stack, ipAddrStr)
             op == [ op |-> "connect", ip |-> ipAddrStr, group |-> matchingGroup ]
         IN  IF matchingGroup # NULL
             THEN AcceptWith(matchingGroup,
                             op @@ [ connection |-> getFreeConnection(conns),
                                     socketDestroyed |-> FALSE ])
             ELSE /\ lastOp' = op @@ [ connection |-> NULL,
                                       socketDestroyed |-> slave.isThreadlessMode ]
                  /\ UNCHANGED <<now, lowQ, enqLog, held, fault>>
                  /\ UNCHANGED <<svars, xvars, locks, slave, rx>>

NextGroup ==
    \/ \E allowedClients \in AllowLists : AddRedundancyGroup(allowedClients)
    \/ \E threadless \in BOOLEAN : StartSlave(threadless)
    \/ \E ipAddrStr \in AddressStrings : PeerConnects(ipAddrStr)

SpecGroup == InitGroup /\ [][NextGroup]_vars

(***************************************************************************)
(* Specification of STOPDT: in mode SINGLE_REDUNDANCY_GROUP connections    *)
(* are activated, stopped with STOPDT_ACT and activated again while the    *)
(* application enqueues ASDUs and the active connection sends them and     *)
(* receives acknowledgements.                                              *)
(***************************************************************************)
InitStop ==
    /\ serverMode = SINGLE_REDUNDANCY_GROUP
    /\ lastOp = [ op |-> "init" ]
    /\ SlaveCreated

\* handleMessage, STOPDT_ACT, recorded in the history
StopDTLogged(c) == StopDTOf(c, TRUE)

\* CS104_Slave_enqueueASDU
StopEnqueue == EnqueueASDU(MaxStopEnqueue)

NextStop ==
    \/ \E grp \in QueueIds : Accept(grp)
    \/ \E c \in ConnIds : StartDT_DeactivatePeers(c)
    \/ \E c \in ConnIds : StartDT_Activate(c)
    \/ \E c \in ConnIds : StopDTLogged(c)
    \/ StopEnqueue
    \/ \E c \in ConnIds : SendNextLow(c)
    \/ \E c \in ConnIds : RecvAck(c)

SpecStop == InitStop /\ [][NextStop]_vars

(***************************************************************************)
(* Specification of the life of the slave and of its connections in mode   *)
(* SINGLE_REDUNDANCY_GROUP: the slave is started threaded or threadless,   *)
(* connections are accepted, used, closed and removed and their slots      *)
(* allocated again, and the application stops and destroys the slave.      *)
(***************************************************************************)
InitLife ==
    /\ serverMode = SINGLE_REDUNDANCY_GROUP
    /\ lastOp = [ op |-> "init" ]
    /\ Created
    /\ NoHistory
    /\ slave = SlaveNotStarted

\* CS104_Slave_start or CS104_Slave_startThreadless
LifeStart(threadless) ==
    /\ slave.caller = "application"
    /\ StartSlave(threadless)

\* serverThread, one pass of its loop with a peer that connects, or
\* handleConnectionsThreadless with such a peer
LifeAccept ==
    /\ slave.isRunning
    /\ Accept(1)

\* CS104_Slave_enqueueASDU
LifeEnqueue ==
    /\ slave.caller = "application"
    /\ EnqueueASDU(MaxLifeEnqueue)

\* the worker of connection c receives an I-format frame that is in
\* sequence and acknowledges all that was sent
LifeRecvI(c) ==
    /\ RecvIOf(c, MaxLifeRecv)
    /\ lastOp'.inSequence
    /\ lastOp'.nr = conns[c].sendCount

\* the end of connectionHandlingThread in threaded mode
ThreadExit(c) ==
    /\ ~slave.isThreadlessMode
    /\ WorkerExit(c)

\* handleClientConnections in threadless mode, the first loop at a slot in
\* use whose connection is not running: the same event and bookkeeping as at
\* the end of connectionHandlingThread
Reap(c) ==
    /\ slave.isThreadlessMode
    /\ slave.caller # "destroyed"
    /\ WorkerExit(c)

\* CS104_Slave_stop in threaded mode while the listener runs: stopRunning is
\* set, then the caller waits while isRunning
Stop ==
    /\ slave.caller = "application"
    /\ ~slave.isThreadlessMode
    /\ slave.isRunning
    /\ slave' = [ slave EXCEPT !.stopRunning = TRUE,
                               !.caller = "CS104_Slave_stop" ]
    /\ UNCHANGED <<qvars, svars, xvars, locks, rx>>

\* serverThread: the loop is left when stopRunning is set
ListenerExit ==
    /\ ~slave.isThreadlessMode
    /\ slave.isRunning
    /\ slave.stopRunning
    /\ slave' = [ slave EXCEPT !.isRunning = FALSE, !.stopRunning = FALSE ]
    /\ UNCHANGED <<qvars, svars, xvars, locks, rx>>

\* CS104_Slave_stop returns when isRunning is false
StopReturns ==
    /\ slave.caller = "CS104_Slave_stop"
    /\ ~slave.isRunning
    /\ slave' = [ slave EXCEPT !.caller = "stopped" ]
    /\ UNCHANGED <<qvars, svars, xvars, locks, rx>>

\* CS104_Slave_stopThreadless
StopThreadless ==
    /\ slave.caller = "application"
    /\ slave.isThreadlessMode
    /\ slave.isRunning
    /\ slave' = [ slave EXCEPT !.isRunning = FALSE, !.caller = "stopped" ]
    /\ UNCHANGED <<qvars, svars, xvars, locks, rx>>

\* CS104_Slave_destroy of a stopped slave: MasterConnection_close for every
\* slot in use, then (in threaded mode) the caller waits until
\* openConnections is 0
Destroy ==
    /\ slave.caller = "stopped"
    /\ \A c \in ConnIds : pc[c] = "idle"
    /\ conns' = [ c \in ConnIds |->
                    IF conns[c].isUsed
                    THEN [ conns[c] EXCEPT !.isRunning = FALSE ]
                    ELSE conns[c] ]
    /\ slave' = [ slave EXCEPT !.caller = "CS104_Slave_destroy" ]
    /\ UNCHANGED <<now, lastOp, lowQ, enqLog, held, fault, serverMode,
                   conParameters, highQ, pc, wire, txCount, lastFrame, handoff,
                   everSent, accepted>>
    /\ UNCHANGED <<xvars, locks, rx>>

\* CS104_Slave_destroy returns
DestroyReturns ==
    /\ slave.caller = "CS104_Slave_destroy"
    /\ slave.isThreadlessMode \/ slave.openConnections = 0
    /\ slave' = [ slave EXCEPT !.caller = "destroyed" ]
    /\ UNCHANGED <<qvars, svars, xvars, locks, rx>>

NextLife ==
    \/ \E threadless \in BOOLEAN : LifeStart(threadless)
    \/ LifeAccept
    \/ \E c \in ConnIds : StartDT_DeactivatePeers(c)
    \/ \E c \in ConnIds : StartDT_Activate(c)
    \/ LifeEnqueue
    \/ \E c \in ConnIds : SendNextLow(c)
    \/ \E c \in ConnIds : LifeRecvI(c)
    \/ \E c \in ConnIds : PeerDrop(c)
    \/ \E c \in ConnIds : ThreadExit(c)
    \/ \E c \in ConnIds : Reap(c)
    \/ Stop
    \/ ListenerExit
    \/ StopReturns
    \/ StopThreadless
    \/ Destroy
    \/ DestroyReturns

SpecLife == InitLife /\ [][NextLife]_vars

\* The scheduling of the connection lifecycle: a connection thread that has
\* left its loop runs to its end, a handler that has begun the activation
\* completes it, and the application of a threadless slave calls
\* CS104_Slave_tick again as long as the slave exists
LifeFairness ==
    \A c \in ConnIds :
      /\ WF_vars(ThreadExit(c))
      /\ WF_vars(Reap(c))
      /\ WF_vars(StartDT_Activate(c))

SpecLifeFair == SpecLife /\ LifeFairness

(***************************************************************************)
(* receiveMessage: the reads of one call and the bytes the peer has sent   *)
(***************************************************************************)
\* the start byte of an APDU, 0x68
START_BYTE == 104

\* the bytes a peer sends
RxBytes == { START_BYTE } \cup ( 0 .. MaxRxLength )

\* Socket_read of up to size bytes: -1 when the read fails, else the number
\* of bytes the socket holds, at most size
readFromSocket(socket, size, fails) ==
    IF fails THEN -1
    ELSE IF Len(socket) <= size THEN Len(socket) ELSE size

\* the receive buffer with bytes stored from position bufPos (counted from 0)
Stored(buffer, bufPos, bytes) ==
    [ i \in 1 .. ( IF Len(buffer) >= bufPos + Len(bytes)
                   THEN Len(buffer) ELSE bufPos + Len(bytes) ) |->
        IF i > bufPos /\ i <= bufPos + Len(bytes)
        THEN bytes[i - bufPos]
        ELSE buffer[i] ]

\* the bytes a read of n bytes takes from the socket (none when it failed)
Taken(socket, n) == IF n > 0 THEN SubSeq(socket, 1, n) ELSE << >>

Left(socket, n) == IF n > 0 THEN SubSeq(socket, n + 1, Len(socket)) ELSE socket

\* receiveMessage, "read remaining frame": self has the start and the length
\* byte in recvBuffer, bufPos bytes are in the buffer
ReadRemaining(self, bufPos, read, failing) ==
    LET length          == self.recvBuffer[2]
        remainingLength == length - bufPos + 2
        readCnt         == readFromSocket(self.socket, remainingLength, failing = 3)
        buffer          == Stored(self.recvBuffer, bufPos, Taken(self.socket, readCnt))
        socket          == Left(self.socket, readCnt)
        taken           == read \o Taken(self.socket, readCnt)
    IN  IF readCnt = remainingLength
        THEN [ self  |-> [ self EXCEPT !.recvBuffer = buffer, !.socket = socket,
                                       !.recvBufPos = 0 ],
               ret   |-> length + 2,
               read  |-> taken,
               error |-> FALSE ]
        ELSE IF readCnt = -1
        THEN [ self  |-> [ self EXCEPT !.recvBufPos = 0 ],
               ret   |-> -1,
               read  |-> taken,
               error |-> TRUE ]
        ELSE [ self  |-> [ self EXCEPT !.recvBuffer = buffer, !.socket = socket,
                                       !.recvBufPos = bufPos + readCnt ],
               ret   |-> 0,
               read  |-> taken,
               error |-> FALSE ]

\* receiveMessage, "read length byte"
ReadLength(self, bufPos, read, failing) ==
    IF bufPos = 1
    THEN LET n == readFromSocket(self.socket, 1, failing = 2)
         IN  IF n # 1
             THEN [ self  |-> [ self EXCEPT !.recvBufPos = 0 ],
                    ret   |-> -1,
                    read  |-> read,
                    error |-> n = -1 ]
             ELSE ReadRemaining(
                      [ self EXCEPT !.recvBuffer = Stored(@, 1, Taken(self.socket, 1)),
                                    !.socket = Left(@, 1) ],
                      bufPos + 1, read \o Taken(self.socket, 1), failing)
    ELSE ReadRemaining(self, bufPos, read, failing)

\* receiveMessage: self is the connection's recvBuffer, recvBufPos and
\* socket, failing the read of the call that fails (1 the start byte, 2 the
\* length byte, 3 the remainder, 0 none); the result has the connection, the
\* value returned, the bytes read in the call and whether a read failed
receiveMessage(self, failing) ==
    IF self.recvBufPos = 0
    THEN LET readFirst == readFromSocket(self.socket, 1, failing = 1)
             buffer    == Stored(self.recvBuffer, 0, Taken(self.socket, readFirst))
         IN  IF readFirst < 1
             THEN [ self |-> self, ret |-> readFirst, read |-> << >>,
                    error |-> readFirst = -1 ]
             ELSE IF buffer[1] # START_BYTE
             THEN [ self  |-> [ self EXCEPT !.recvBuffer = buffer,
                                            !.socket = Left(@, 1) ],
                    ret   |-> -1,
                    read  |-> Taken(self.socket, 1),
                    error |-> FALSE ]
             ELSE ReadLength([ self EXCEPT !.recvBuffer = buffer,
                                           !.socket = Left(@, 1) ],
                             1, Taken(self.socket, 1), failing)
    ELSE ReadLength(self, self.recvBufPos, << >>, failing)

InitRx ==
    /\ serverMode = SINGLE_REDUNDANCY_GROUP
    /\ lastOp = [ op |-> "init" ]
    /\ SlaveCreated

\* the first peer connects
RxAccept == accepted = 0 /\ Accept(1)

\* one more byte of the peer arrives at the socket of connection c
PeerSends(c, byte) ==
    /\ conns[c].isUsed /\ conns[c].isRunning
    /\ rx[c].arrived < MaxRxBytes
    /\ rx' = [ rx EXCEPT ![c].socket = Append(@, byte),
                         ![c].arrived = @ + 1 ]
    /\ lastOp' = [ op |-> "peer_sends", con |-> c ]
    /\ UNCHANGED <<now, lowQ, enqLog, held, fault>>
    /\ UNCHANGED <<svars, xvars, locks, slave>>

\* connectionHandlingThread, the call of receiveMessage and the break of the
\* loop when it returns -1
ReceiveMessage(c, failing) ==
    /\ conns[c].isUsed /\ conns[c].isRunning /\ pc[c] = "idle"
    /\ LET r == receiveMessage(rx[c], failing)
       IN  /\ rx' = [ rx EXCEPT ![c] = r.self ]
           /\ conns' = [ conns EXCEPT ![c].isRunning = r.ret # -1 ]
           /\ lastOp' = [ op |-> "receiveMessage", con |-> c, ret |-> r.ret,
                          read |-> r.read, error |-> r.error,
                          before |-> rx[c] ]
    /\ UNCHANGED <<now, lowQ, enqLog, held, fault>>
    /\ UNCHANGED <<serverMode, conParameters, highQ, pc, wire, txCount,
                   lastFrame, handoff, everSent, accepted>>
    /\ UNCHANGED <<xvars, locks, slave>>

NextRx ==
    \/ RxAccept
    \/ \E c \in ConnIds, byte \in RxBytes : PeerSends(c, byte)
    \/ \E c \in ConnIds, failing \in 0 .. 3 : ReceiveMessage(c, failing)

SpecRx == InitRx /\ [][NextRx]_vars

(***************************************************************************)
(* Specification of a clock that is set back: one connection receives and  *)
(* answers I-frames and checks its timeouts, the clock advances, and the   *)
(* system time is changed to an earlier one once in a session.             *)
(***************************************************************************)
\* an I-frame in sequence that acknowledges what was sent
StepRecvI(c) ==
    /\ RecvIOf(c, MaxStepRecv)
    /\ lastOp'.inSequence
    /\ lastOp'.nr = conns[c].sendCount

TickStep == TickTo(MaxStepClock)

\* Hal_getTimeInMs() returns an earlier time than before: the system time
\* was set back
ClockSetBack(t) ==
    /\ t < now
    /\ \E c \in ConnIds : conns[c].isUsed /\ conns[c].isRunning
    /\ \A c \in ConnIds : ctl[c].clockStep = NULL
    /\ now' = t
    /\ ctl' = [ c \in ConnIds |->
                  IF conns[c].isUsed
                  THEN [ ctl[c] EXCEPT !.clockStep = t ]
                  ELSE ctl[c] ]
    /\ UNCHANGED <<lowQ, enqLog, held, lastOp, fault>>
    /\ UNCHANGED <<svars, highLog, dispatched, locks, slave, rx>>

NextClock ==
    \/ RecvAccept
    \/ \E c \in ConnIds : StartDT_DeactivatePeers(c)
    \/ \E c \in ConnIds : StartDT_Activate(c)
    \/ \E c \in ConnIds : StepRecvI(c)
    \/ \E c \in ConnIds : HandleTimeouts(c)
    \/ TickStep
    \/ \E n \in 0 .. ( MaxStepClock \div TickMs ) : ClockSetBack(n * TickMs)

SpecClock == InitTime /\ [][NextClock]_vars

(***************************************************************************)
(* sendWaitingASDUs as one pass, and the specification of the drain: one   *)
(* active connection receives I-frames whose handler answers, the          *)
(* application enqueues, acknowledgements arrive, and the worker runs the  *)
(* passes.                                                                 *)
(***************************************************************************)
\* MessageQueue_isAsduAvailable
MessageQueue_isAsduAvailable(q) == q.entryCounter > 0

\* the while loop of sendWaitingASDUs: sent are the ASDUs handed to sendASDU
\* so far in the pass, failing is the number of the one whose write to the
\* socket fails (0: none); emptied tells that the loop ended because
\* HighPriorityASDUQueue_isAsduAvailable returned false
RECURSIVE SendHighPriorityASDUs(_, _, _, _, _)
SendHighPriorityASDUs(con, high, currentTime, failing, sent) ==
    IF ~HighPriorityASDUQueue_isAsduAvailable(high)
    THEN [ con |-> con, high |-> high, sent |-> sent, emptied |-> TRUE ]
    ELSE IF isSentBufferFull(con)
    THEN [ con |-> con, high |-> high, sent |-> sent, emptied |-> FALSE ]
    ELSE CHOOSE res \in
           { IF ~r.con.isRunning
             THEN [ con |-> r.con, high |-> r.high, sent |-> r.sent,
                    emptied |-> FALSE ]
             ELSE SendHighPriorityASDUs(r.con, r.high, currentTime, failing, r.sent) :
               r \in { LET h == HighPriorityASDUQueue_getNextASDU(high)
                           s == sendASDU(con, 0, NULL, h.asdu, currentTime,
                                         failing # Len(sent) + 1)
                       IN  [ con  |-> s.con,
                             high |-> h.q,
                             sent |-> Append(sent, [ asdu |-> h.asdu, ns |-> s.ns,
                                                     nr |-> s.nr, src |-> "high" ]) ] } } :
           TRUE

\* sendWaitingASDUs: the connection and its queues afterwards, the ASDUs
\* handed to sendASDU, and the value returned
Mut_sendWaitingASDUs(con, high, low, currentTime, failing, g) ==
    LET hp == SendHighPriorityASDUs(con, high, currentTime, failing, << >>)
        w == MessageQueue_getNextWaitingASDU(low, g)
        send == ~isSentBufferFull(hp.con) /\ w.buffer # NULL
        s == sendASDU(hp.con, w.timestamp, w.queueEntry, w.asdu, currentTime,
                      failing # Len(hp.sent) + 1)
        low1 == IF isSentBufferFull(hp.con) THEN low ELSE w.q
    IN  [ con     |-> IF send THEN s.con ELSE hp.con,
          high    |-> hp.high,
          low     |-> low1,
          sent    |-> IF send
                      THEN Append(hp.sent, [ asdu |-> w.asdu, ns |-> s.ns,
                                             nr |-> s.nr, src |-> "low" ])
                      ELSE hp.sent,
          emptied |-> hp.emptied,
          fault   |-> ~isSentBufferFull(hp.con) /\ w.fault,
          ret     |-> MessageQueue_isAsduAvailable(low1) ]

sendWaitingASDUs(con, high, low, currentTime, failing, g) ==
    CHOOSE res \in
      { LET send == ~isSentBufferFull(hp.con) /\ w.buffer # NULL
            s == sendASDU(hp.con, w.timestamp, w.queueEntry, w.asdu, currentTime,
                          failing # Len(hp.sent) + 1)
            low1 == IF isSentBufferFull(hp.con) THEN low ELSE w.q
        IN  IF ~hp.emptied
            THEN [ con |-> hp.con, high |-> hp.high, low |-> low, sent |-> hp.sent,
                   emptied |-> FALSE, fault |-> FALSE, ret |-> TRUE ]
            ELSE [ con     |-> IF send THEN s.con ELSE hp.con,
                   high    |-> hp.high,
                   low     |-> low1,
                   sent    |-> IF send
                               THEN Append(hp.sent, [ asdu |-> w.asdu, ns |-> s.ns,
                                                      nr |-> s.nr, src |-> "low" ])
                               ELSE hp.sent,
                   emptied |-> TRUE,
                   fault   |-> ~isSentBufferFull(hp.con) /\ w.fault,
                   ret     |-> MessageQueue_isAsduAvailable(low1) ] :
          hp \in { SendHighPriorityASDUs(con, high, currentTime, failing, << >>) },
          w \in { MessageQueue_getNextWaitingASDU(low, g) } } :
      TRUE

\* the number of entries of the queue in state WAITING_FOR_TRANSMISSION
WaitingEntries(q) ==
    LET live == LiveEntries(q)
    IN  Cardinality({ i \in 1 .. Len(live) :
                        q.buffer[live[i]].entryState = WAITING_FOR_TRANSMISSION })

\* the frames of sent that were written to the socket
Written(sent) == SelectSeq(sent, LAMBDA f : f.ns # NULL)

InitDrain ==
    /\ serverMode = SINGLE_REDUNDANCY_GROUP
    /\ lastOp = [ op |-> "init" ]
    /\ now = 0
    /\ lowQ = [ i \in QueueIds |-> MessageQueue_initialize(MaxQueueSize) ]
    /\ enqLog = [ i \in QueueIds |-> << >> ]
    /\ held = << >>
    /\ fault = FALSE
    /\ conParameters = [ DefaultParameters EXCEPT !.k = DrainK ]
    /\ conns = [ c \in ConnIds |->
                   IF c = 1
                   THEN [ MasterConnection_init(
                              MasterConnection_create(DrainK), 1, 1, 0, DefaultT3)
                            EXCEPT !.isUsed = TRUE, !.isRunning = TRUE,
                                   !.isActive = TRUE ]
                   ELSE MasterConnection_create(DrainK) ]
    /\ txCount = [ c \in ConnIds |-> 0 ]
    /\ highQ = [ i \in QueueIds |->
                   HighPriorityASDUQueue_resetConnectionQueue(
                       HighPriorityASDUQueue_initialize(DrainHighQueueSize)) ]
    /\ pc = [ c \in ConnIds |-> "idle" ]
    /\ wire = [ c \in ConnIds |-> << >> ]
    /\ lastFrame = [ c \in ConnIds |-> NoFrame ]
    /\ handoff = NoHandoff
    /\ everSent = 0
    /\ accepted = 1
    /\ NoHistory
    /\ slave = [ SlaveStarted(conns) EXCEPT !.openConnections = 1 ]

\* CS104_Slave_enqueueASDU
DrainEnqueue == EnqueueASDU(MaxDrainEnqueue)

\* connectionHandlingThread: a pass of sendWaitingASDUs follows every message
\* handled, before the next one is taken from the socket
Drained == lastOp.op \in { "init", "drain" }

\* handleMessage, an I-frame in sequence that leaves the connection open: the
\* handler's n-th response is ASDU n
DrainRecvI(c) ==
    /\ Drained
    /\ RecvIWith(c, MaxDrainRecv, MaxDrainSend, dispatched[c] + 1, TRUE)
    /\ lastOp'.inSequence
    /\ conns'[c].isRunning

\* handleMessage, an S-frame with a valid N(R)
DrainRecvS(c) == Drained /\ RecvS(c) /\ conns'[c].isRunning

\* the headers a scan of the queue can read from bytes that hold no header:
\* a scan of an intact ring reads the headers of its entries only
ReadableGarbage(q) ==
    IF RingInvariant(q)
    THEN { CHOOSE g \in GarbageHeaders : TRUE }
    ELSE GarbageHeaders

\* connectionHandlingThread, the call of sendWaitingASDUs
SendWaitingASDUs(c) ==
    /\ ~fault
    /\ conns[c].isUsed /\ conns[c].isRunning /\ pc[c] = "idle"
    /\ conns[c].isActive
    /\ \E failing \in 0 .. DrainK + 1, g \in ReadableGarbage(lowQ[conns[c].lowPrioQueue]) :
         \E p \in { sendWaitingASDUs(conns[c], highQ[conns[c].highPrioQueue],
                                      lowQ[conns[c].lowPrioQueue], now, failing, g) } :
         \E written \in { Written(p.sent) } :
             /\ failing <= Len(p.sent)
             /\ everSent + Len(p.sent) <= MaxDrainSend
             /\ conns' = [ conns EXCEPT ![c] = p.con ]
             /\ highQ' = [ highQ EXCEPT ![conns[c].highPrioQueue] = p.high ]
             /\ lowQ' = [ lowQ EXCEPT ![conns[c].lowPrioQueue] = p.low ]
             /\ fault' = p.fault
             /\ txCount' = [ txCount EXCEPT ![c] = @ + Len(written) ]
             /\ lastFrame' = [ lastFrame EXCEPT ![c] =
                                 IF written # << >>
                                 THEN [ ns   |-> written[Len(written)].ns,
                                        nr   |-> written[Len(written)].nr,
                                        asdu |-> written[Len(written)].asdu,
                                        src  |-> written[Len(written)].src ]
                                 ELSE @ ]
             /\ wire' = [ wire EXCEPT ![c] =
                            @ \o [ i \in 1 .. Len(SelectSeq(written,
                                                   LAMBDA f : f.src = "low")) |->
                                     LET f == SelectSeq(written,
                                                  LAMBDA x : x.src = "low")[i]
                                     IN  [ ns |-> f.ns, asdu |-> f.asdu,
                                           enq |-> Len(enqLog[1]) ] ] ]
             /\ everSent' = everSent + Len(p.sent)
             /\ ctl' = [ ctl EXCEPT ![c].responses =
                           @ \o [ i \in 1 .. Len(SelectSeq(written,
                                                  LAMBDA f : f.src = "high")) |->
                                    SelectSeq(written,
                                              LAMBDA x : x.src = "high")[i].asdu ] ]
             /\ lastOp' = [ op |-> "drain", c |-> c,
                            sent |-> p.sent, emptied |-> p.emptied,
                            ret |-> p.ret,
                            full |-> isSentBufferFull(p.con),
                            high |-> p.high.entryCounter,
                            waiting |-> WaitingEntries(p.low) ]
    /\ UNCHANGED <<now, enqLog, held, serverMode, conParameters, pc, handoff,
                   accepted>>
    /\ UNCHANGED <<highLog, dispatched, locks, slave, rx>>

NextDrain ==
    \/ DrainEnqueue
    \/ \E c \in ConnIds : DrainRecvI(c)
    \/ \E c \in ConnIds : DrainRecvS(c)
    \/ \E c \in ConnIds : SendWaitingASDUs(c)

SpecDrain == InitDrain /\ [][NextDrain]_vars

(***************************************************************************)
(* Specification of the connection limit in mode SINGLE_REDUNDANCY_GROUP:  *)
(* the application sets maxOpenConnections and starts the slave threaded   *)
(* or threadless, peers arrive at the listener, connections are closed     *)
(* and removed.  No connection request handler is installed.               *)
(***************************************************************************)
\* the values handed to CS104_Slave_setMaxOpenConnections
MaxOpenConnectionsInputs == (0 - MinMaxOpen) .. (MaxClientConnections + 1)

\* CS104_Slave_setMaxOpenConnections: the value stored for the argument
CS104_Slave_setMaxOpenConnections(maxOpenConnections) ==
    IF MaxClientConnections > 0 /\ maxOpenConnections > MaxClientConnections
    THEN MaxClientConnections
    ELSE maxOpenConnections

InitLimit ==
    /\ serverMode = SINGLE_REDUNDANCY_GROUP
    /\ lastOp = [ op |-> "init" ]
    /\ Created
    /\ NoHistory
    /\ slave = SlaveNotStarted

\* CS104_Slave_setMaxOpenConnections before the slave is started
SetMaxOpenConnections(maxOpenConnections) ==
    /\ slave.caller = "application"
    /\ ~slave.isRunning
    /\ slave' = [ slave EXCEPT !.maxOpenConnections =
                    CS104_Slave_setMaxOpenConnections(maxOpenConnections) ]
    /\ UNCHANGED <<qvars, svars, xvars, locks, rx>>

\* the acceptor gives the peer no slot: nothing but lastOp changes
NoSlot(op) ==
    /\ lastOp' = op
    /\ UNCHANGED <<now, lowQ, enqLog, held, fault>>
    /\ UNCHANGED <<svars, xvars, locks, slave, rx>>

\* one pass of the loop of serverThread, or the first part of
\* handleConnectionsThreadless, with a peer waiting at the listener.
\* serverThread accepts the socket and destroys it when maxOpenConnections
\* is positive and reached; handleConnectionsThreadless does not accept the
\* socket then.  Otherwise getFreeConnection is asked for a slot: without
\* one handleConnectionsThreadless destroys the socket and serverThread
\* only prints a message
PeerArrives ==
    /\ slave.isRunning /\ ~slave.stopRunning
    /\ LET m == slave.maxOpenConnections
           open == slave.openConnections
           connection == getFreeConnection(conns)
           arrive(con, destroyed) ==
               [ op              |-> "arrive",
                 threadless      |-> slave.isThreadlessMode,
                 max             |-> m,
                 open            |-> open,
                 used            |-> Cardinality({ c \in ConnIds :
                                                     conns[c].isUsed }),
                 connection      |-> con,
                 socketDestroyed |-> destroyed ]
       IN  IF slave.isThreadlessMode
           THEN IF m < 1 \/ open < m
                THEN IF connection # NULL
                     THEN AcceptWith(1, arrive(connection, FALSE))
                     ELSE NoSlot(arrive(NULL, TRUE))
                ELSE NoSlot(arrive(NULL, FALSE))
           ELSE IF m > 0 /\ open >= m
                THEN NoSlot(arrive(NULL, TRUE))
                ELSE IF connection # NULL
                     THEN AcceptWith(1, arrive(connection, FALSE))
                     ELSE NoSlot(arrive(NULL, FALSE))

NextLimit ==
    \/ \E maxOpenConnections \in MaxOpenConnectionsInputs :
         SetMaxOpenConnections(maxOpenConnections)
    \/ \E threadless \in BOOLEAN : LifeStart(threadless)
    \/ PeerArrives
    \/ \E c \in ConnIds : PeerDrop(c)
    \/ \E c \in ConnIds : ThreadExit(c)
    \/ \E c \in ConnIds : Reap(c)

SpecLimit == InitLimit /\ [][NextLimit]_vars

(***************************************************************************)
(* Specification of short frames: one connection in mode                   *)
(* SINGLE_REDUNDANCY_GROUP receives frames that start with 0x68 and are    *)
(* shorter than the smallest I-format message handleMessage accepts; the   *)
(* length byte and the first control octet are the peer's choice.  The     *)
(* clock stays below T3, nothing is enqueued: handleTimeouts and           *)
(* sendWaitingASDUs, which end a pass of the loop, find nothing to do.     *)
(***************************************************************************)
\* handleMessage: the smallest msgSize looked at, the smallest msgSize of an
\* I-format message
MinMessageSize == 3
MinIMessageSize == 7

\* handleMessage: the masks of the U-format messages and the first control
\* octet of an S-format message
TESTFR_ACT == 67
STARTDT_ACT == 7
STOPDT_ACT == 19
TESTFR_CON == 131
S_FORMAT == 1

\* the first control octets a peer sends: an I-format one, the S-format
\* one, an unknown one and the four U-format messages handleMessage knows
ControlOctets == { 0, S_FORMAT, 3, STARTDT_ACT, STOPDT_ACT, TESTFR_ACT, TESTFR_CON }

\* the length bytes of the frames that are shorter than an I-format message
ShortLengths == 0 .. ( MinIMessageSize - 3 )

\* a & b of two octets
RECURSIVE BitAnd(_, _)
BitAnd(a, b) ==
    IF a = 0 \/ b = 0 THEN 0
    ELSE ( a % 2 ) * ( b % 2 ) + 2 * BitAnd(a \div 2, b \div 2)

\* buffer[i] of recvBuffer, which MasterConnection_create allocates zeroed:
\* an octet no frame has stored yet is 0
Octet(buffer, i) == IF i + 1 <= Len(buffer) THEN buffer[i + 1] ELSE 0

\* handleMessage for a message of msgSize octets in buffer that is shorter
\* than MinIMessageSize, ok tells whether writeToSocket succeeds: the
\* connection afterwards, the branch taken, the confirmation written and
\* the value returned
handleMessage(con, buffer, msgSize, ok, currentTime, t3) ==
    LET control == Octet(buffer, 2)
        reject(format) ==
            [ con |-> con, format |-> format, wrote |-> "none", ret |-> FALSE ]
        answer(format, c1, type) ==
            IF ok
            THEN [ con |-> resetT3Timeout(c1, currentTime, t3),
                   format |-> format, wrote |-> type, ret |-> TRUE ]
            ELSE [ con |-> c1, format |-> format, wrote |-> "none",
                   ret |-> FALSE ]
    IN  IF msgSize < MinMessageSize THEN reject("too small")
        ELSE IF Octet(buffer, 0) # START_BYTE THEN reject("start")
        ELSE IF Octet(buffer, 1) # msgSize - 2 THEN reject("length")
        ELSE IF BitAnd(control, 1) = 0
        THEN reject("I")
        ELSE IF BitAnd(control, TESTFR_ACT) = TESTFR_ACT
        THEN answer("TESTFR_ACT", con, "TESTFR_CON")
        ELSE IF BitAnd(control, STARTDT_ACT) = STARTDT_ACT
        THEN answer("STARTDT_ACT", MasterConnection_activate(con), "STARTDT_CON")
        ELSE IF BitAnd(control, STOPDT_ACT) = STOPDT_ACT
        THEN answer("STOPDT_ACT", MasterConnection_deactivate(con), "STOPDT_CON")
        ELSE IF BitAnd(control, TESTFR_CON) = TESTFR_CON
        THEN [ con |-> resetT3Timeout(
                           [ con EXCEPT !.outstandingTestFRConMessages = 0 ],
                           currentTime, t3),
               format |-> "TESTFR_CON", wrote |-> "none", ret |-> TRUE ]
        ELSE IF control = S_FORMAT
        THEN LET seqNo == ( Octet(buffer, 4) + Octet(buffer, 5) * 256 ) \div 2
                 r == checkSequenceNumber(con, seqNo)
             IN  IF r.seqNoIsValid
                 THEN [ con |-> resetT3Timeout(r.con, currentTime, t3),
                        format |-> "S", wrote |-> "none", ret |-> TRUE ]
                 ELSE [ con |-> r.con, format |-> "S", wrote |-> "none",
                        ret |-> FALSE ]
        ELSE [ con |-> con, format |-> "unknown", wrote |-> "none",
               ret |-> TRUE ]

InitLen ==
    /\ serverMode = SINGLE_REDUNDANCY_GROUP
    /\ lastOp = [ op |-> "init" ]
    /\ SlaveCreated

\* the first peer connects
LenAccept == accepted = 0 /\ Accept(1)

\* the peer of connection c sends a frame: the start byte, the length byte
\* and as many octets as the length byte says, the first of them control
PeerSendsFrame(c, length, control) ==
    /\ conns[c].isUsed /\ conns[c].isRunning
    /\ rx[c].socket = << >>
    /\ rx[c].arrived + length + 2 <= MaxLenBytes
    /\ LET frame == << START_BYTE, length >> \o
                    [ i \in 1 .. length |-> IF i = 1 THEN control ELSE 0 ]
       IN  rx' = [ rx EXCEPT ![c].socket = frame,
                             ![c].arrived = @ + Len(frame) ]
    /\ lastOp' = [ op |-> "peer_sends", con |-> c ]
    /\ UNCHANGED <<now, lowQ, enqLog, held, fault>>
    /\ UNCHANGED <<svars, xvars, locks, slave>>

\* connectionHandlingThread, one pass of the loop with a frame at the
\* socket: receiveMessage, then handleMessage when it returned a message,
\* and isRunning cleared when either fails.  STARTDT_ACT deactivates the
\* other connections (CS104_Slave_activate) and resets the high-priority
\* queue whether or not STARTDT_CON can be written
ReceiveFrame(c) ==
    /\ ~fault
    /\ conns[c].isUsed /\ conns[c].isRunning /\ pc[c] = "idle"
    /\ rx[c].socket # << >>
    /\ \E ok \in BOOLEAN :
         LET r == receiveMessage(rx[c], 0)
             h == IF r.ret > 0
                  THEN handleMessage(conns[c], r.self.recvBuffer, r.ret, ok,
                                     now, conParameters.t3)
                  ELSE [ con |-> conns[c], format |-> "none",
                         wrote |-> "none", ret |-> r.ret = 0 ]
             after == [ h.con EXCEPT !.isRunning = h.ret ]
             peers == IF h.format = "STARTDT_ACT"
                      THEN DeactivatePeers(conns, serverMode, c)
                      ELSE conns
         IN  /\ rx' = [ rx EXCEPT ![c] = r.self ]
             /\ conns' = [ peers EXCEPT ![c] = after ]
             /\ highQ' = IF h.format = "STARTDT_ACT"
                         THEN [ highQ EXCEPT ![conns[c].highPrioQueue] =
                                  HighPriorityASDUQueue_resetConnectionQueue(@) ]
                         ELSE highQ
             /\ ctl' = [ ctl EXCEPT ![c] =
                           LET c1 == IF h.wrote # "none"
                                     THEN WroteU(@, h.wrote) ELSE @
                               c2 == IF h.format = "TESTFR_CON"
                                     THEN [ c1 EXCEPT !.answered = c1.testfr ]
                                     ELSE c1
                           IN  IF h.ret /\ h.format \notin { "none", "unknown" }
                               THEN Handled(c2, now) ELSE c2 ]
             /\ lastOp' = [ op      |-> "frame",
                            con     |-> c,
                            length  |-> Octet(r.self.recvBuffer, 1),
                            msgSize |-> r.ret,
                            format  |-> h.format,
                            wrote   |-> h.wrote,
                            ret     |-> h.ret,
                            before  |-> conns[c],
                            after   |-> after ]
    /\ UNCHANGED <<now, lowQ, enqLog, held, fault>>
    /\ UNCHANGED <<serverMode, conParameters, pc, wire, txCount, lastFrame,
                   handoff, everSent, accepted>>
    /\ UNCHANGED <<highLog, dispatched, locks, slave>>

\* Hal_getTimeInMs() advances
LenTick == TickTo(MaxLenClock)

NextLen ==
    \/ LenAccept
    \/ \E c \in ConnIds, length \in ShortLengths, control \in ControlOctets :
         PeerSendsFrame(c, length, control)
    \/ \E c \in ConnIds : ReceiveFrame(c)
    \/ LenTick

SpecLen == InitLen /\ [][NextLen]_vars

(***************************************************************************)
(* Specification of the shared high-priority queue: the active connection  *)
(* of the single redundancy group receives I-frames whose handler answers, *)
(* the answers that find the k-buffer full wait in the high-priority       *)
(* queue, the worker sends what is waiting, and a second peer connects.    *)
(***************************************************************************)
\* handleMessage, an I-format frame in sequence that leaves the connection
\* open; the handler answers it
ShareRecvI(c) ==
    /\ Drained
    /\ RecvIWith(c, MaxShareRecv, MaxShareSend, dispatched[c] + 1, TRUE)
    /\ lastOp'.inSequence
    /\ conns'[c].isRunning

NextShare ==
    \/ Accept(1)
    \/ \E c \in ConnIds : ShareRecvI(c)
    \/ \E c \in ConnIds : SendWaitingASDUs(c)

SpecShare == InitDrain /\ [][NextShare]_vars

(***************************************************************************)
(* Claims                                                                  *)
(***************************************************************************)
\* C1: in mode SINGLE_REDUNDANCY_GROUP at most one connection is active, in
\* mode MULTIPLE_REDUNDANCY_GROUPS at most one connection of each redundancy
\* group is active, in every reachable state and for every interleaving of
\* the connection workers
C1_ActivationExclusive ==
    /\ serverMode = SINGLE_REDUNDANCY_GROUP =>
         Cardinality({ c \in ConnIds :
                         conns[c].isUsed /\ conns[c].isActive }) <= 1
    /\ serverMode = MULTIPLE_REDUNDANCY_GROUPS =>
         \A grp \in QueueIds :
           Cardinality({ c \in ConnIds :
                           /\ conns[c].isUsed /\ conns[c].isActive
                           /\ conns[c].redundancyGroup = grp }) <= 1

\* C2: a connection never has more than conParameters.k sent I-frames that
\* are not acknowledged
C2_WindowCap ==
    \A c \in ConnIds :
      conns[c].isUsed => Len(KBuffer(conns[c])) <= conParameters.k

\* C3: the i-th I-frame written to a connection's socket carries
\* N(S) = (i - 1) mod 32768, whether it comes from the low-priority queue,
\* the high-priority queue or a handler
C3_InOrder ==
    \A c \in ConnIds :
      lastFrame[c] # NoFrame =>
        lastFrame[c].ns = (txCount[c] - 1) % SeqModulus

\* C3 witness: after the sequence number has wrapped, frames of the
\* low-priority queue and of handlers were sent and the last frame written
\* comes from the high-priority queue
C3_Witness ==
    /\ lastFrame[1].src = "high"
    /\ txCount[1] > SeqModulus
    /\ wire[1] # << >>

\* n lies in the cyclic range [old, new] of sequence numbers
InCyclicRange(n, old, new) ==
    (n + SeqModulus - old) % SeqModulus <= (new + SeqModulus - old) % SeqModulus

\* what C4 says of one call of check_seqno(n) that takes connection con to
\* con2 and returns valid
CheckSeqnoClaim(con, con2, n, valid) ==
    LET kb == KBuffer(con)
        kb2 == KBuffer(con2)
        old == kb[1].seqNo
        new == kb[Len(kb)].seqNo
        reack == (old + SeqModulus - 1) % SeqModulus
        pos == CHOOSE i \in 1 .. Len(kb) :
                 /\ kb[i].seqNo = n
                 /\ \A j \in 1 .. i - 1 : kb[j].seqNo # n
    IN  /\ valid <=> IF kb = << >>
                     THEN n = con.sendCount
                     ELSE InCyclicRange(n, old, new) \/ n = reack
        /\ valid =>
             /\ kb2 = IF kb = << >> \/ n = reack
                      THEN kb
                      ELSE SubSeq(kb, pos + 1, Len(kb))
             /\ con2.oldestSentASDU = NoIndex <=> kb2 = << >>
             /\ con2.isRunning
        /\ ~valid =>
             /\ kb2 = kb
             /\ con2.oldestSentASDU = con.oldestSentASDU
             /\ con2.newestSentASDU = con.newestSentASDU
             /\ ~con2.isRunning

\* C4: check_seqno(n) returns true iff n == sendCount (empty k-buffer) or n
\* lies in the cyclic range [old, new] or n == old - 1 (non-empty k-buffer);
\* on true it removes exactly the entries up to and including the one
\* numbered n (none for old - 1), keeps the others in order and sets
\* oldestSentASDU to -1 iff the buffer drained; on false the k-buffer is
\* unchanged and the connection is closed
C4_CheckSeqno ==
    [][ lastOp'.op = "check_seqno" =>
          CheckSeqnoClaim(conns[1], conns'[1], lastOp'.seqNo, lastOp'.valid) ]_vars

\* C4 witness: an acknowledgement was accepted and the frames that stay in
\* the k-buffer are numbered across the wrap, the oldest one following the
\* acknowledged number
C4_Witness ==
    /\ lastOp.op = "check_seqno"
    /\ lastOp.valid
    /\ KBuffer(conns[1]) # << >>
    /\ LET kb == KBuffer(conns[1])
       IN  /\ kb[1].seqNo > kb[Len(kb)].seqNo
           /\ lastOp.seqNo = (kb[1].seqNo + SeqModulus - 1) % SeqModulus

\* C5: when an active connection is removed with a transmitted entry E of
\* the low-priority queue unacknowledged, the first I-frame of a connection
\* that had sent none before carries E with N(S) = 0
C5_Handoff ==
    handoff # NoHandoff =>
      \A b \in handoff.fresh :
        wire[b] # << >> =>
          /\ wire[b][1].asdu = handoff.asdu
          /\ wire[b][1].ns = 0

\* C6: after revert_unconfirmed_to_waiting, made when the connection that
\* held the entries drops, no entry between first and last is
\* SENT_UNCONFIRMED
C6_RevertRestoresWaiting ==
    lastOp.op = "revert" =>
      LET live == LiveEntries(lowQ[1])
      IN  \A i \in 1 .. Len(live) :
            live[i] # NULL =>
              lowQ[1].buffer[live[i]].entryState # SENT_BUT_NOT_CONFIRMED

\* C7: after mark_confirmed(ptr, timestamp) with a non-empty queue and
\* timestamp >= oldestTimestamp the entry at ptr is FREE
C7_MarkConfirmedFrees ==
    ( /\ lastOp.op = "mark_confirmed"
      /\ lastOp.applies
      /\ lastOp.queueEntry \in DOMAIN lowQ[1].buffer ) =>
      lowQ[1].buffer[lastOp.queueEntry].entryState = NOT_USED_OR_CONFIRMED

\* C8: after any sequence of queue operations the ring invariant holds:
\* entryCounter >= 0, the cursors are null when it is 0, and otherwise the
\* scan from first reaches last in exactly entryCounter - 1 steps inside the
\* buffer over entries that do not overlap
C8_RingInvariant == RingInvariant(lowQ[1])

\* C9: after an enqueue the live entries from first to last are a contiguous
\* suffix of the enqueued ASDUs in enqueue order and the newest ASDU is the
\* entry at last, WAITING
C9_LiveIsSuffix ==
    lastOp.op = "enqueue" =>
      LET q == lowQ[1]
          live == LiveAsdus(q)
          n == Len(enqLog[1])
      IN  /\ Len(live) >= 1
          /\ Len(live) <= n
          /\ \A i \in 1 .. Len(live) : live[i] = n - Len(live) + i
          /\ q.lastEntry \in DOMAIN q.buffer
          /\ q.buffer[q.lastEntry].asdu = n
          /\ q.buffer[q.lastEntry].entryState = WAITING_FOR_TRANSMISSION

\* the smaller of two numbers
Min(a, b) == IF a <= b THEN a ELSE b

\* the payload identities a connection was sent from the low-priority queue
WireAsdus(b) == [ i \in 1 .. Len(wire[b]) |-> wire[b][i].asdu ]

\* connection b is the first connection that is sent entries of the
\* low-priority queue, and it is sent them after the last enqueue
FirstDelivery(b) ==
    /\ wire[b] # << >>
    /\ everSent = Len(wire[b])
    /\ \A i \in 1 .. Len(wire[b]) : wire[b][i].enq = Len(enqLog[1])

C11_OldestTimestamp ==
    ( /\ lowQ[1].entryCounter > 0
      /\ lowQ[1].firstEntry \in DOMAIN lowQ[1].buffer ) =>
      lowQ[1].buffer[lowQ[1].firstEntry].entryTimestamp = lowQ[1].oldestTimestamp

\* C12: HighPriorityASDUQueue_enqueue that returns false leaves entryCounter,
\* the cursors and the stored entries unchanged, and the ASDUs
\* HighPriorityASDUQueue_getNextASDU returns are the accepted ASDUs, each
\* once and in enqueue order, for any mix of entry sizes
C12_HighQueue ==
    /\ ( lastOp.op = "high_enqueue" /\ ~lastOp.enqueued ) =>
         highQ[1] = lastOp.before
    /\ Len(highLog.returned) <= Len(highLog.accepted)
    /\ highLog.returned = SubSeq(highLog.accepted, 1, Len(highLog.returned))

\* a step in which connection c takes an I-frame that is the w-th since the
\* last acknowledgement, writes no I-frame in answer and stays running
ReachesW(c) ==
    /\ conns[c].isUsed /\ conns'[c].isRunning
    /\ conns'[c].receiveCount = (conns[c].receiveCount + 1) % SeqModulus
    /\ UnackedReceived(c) + 1 = conParameters.w
    /\ txCount'[c] = txCount[c]

\* C13: when the I-frames received since the last acknowledgement sent
\* (S-frame or outgoing I-frame) reach w, the step that receives the w-th
\* writes one S-frame with N(R) = receiveCount and clears
\* unconfirmedReceivedIMessages and timeoutT2Triggered; after any received
\* frame fewer than w are unacknowledged; a connection that wrote no I-frame
\* has written one S-frame per w I-frames received (one, with N(R) = 8,
\* after the frames 0..7 with w = 8)
C13_WindowAck ==
    /\ [] ( \A c \in ConnIds :
              /\ conns[c].unconfirmedReceivedIMessages < conParameters.w
              /\ ( conns[c].isUsed /\ conns[c].isRunning ) =>
                   /\ UnackedReceived(c) < conParameters.w
                   /\ conns[c].unconfirmedReceivedIMessages = UnackedReceived(c)
                   /\ txCount[c] = 0 =>
                        ctl[c].sframes = conns[c].receiveCount \div conParameters.w )
    /\ [][ \A c \in ConnIds :
             ReachesW(c) =>
               /\ ctl'[c].sframes = ctl[c].sframes + 1
               /\ ctl'[c].last = "S"
               /\ ctl'[c].nr = conns'[c].receiveCount
               /\ conns'[c].unconfirmedReceivedIMessages = 0
               /\ ~conns'[c].timeoutT2Triggered ]_vars

\* C13 witness: with w = 8 a running connection has received the I-frames
\* 0..7, written no I-frame and exactly one S-frame, with N(R) = 8
C13_Witness ==
    \E c \in ConnIds :
        /\ conParameters.w = 8
        /\ conns[c].isUsed /\ conns[c].isRunning
        /\ conns[c].receiveCount = 8
        /\ txCount[c] = 0
        /\ ctl[c].sframes = 1 /\ ctl[c].nr = 8 /\ ctl[c].last = "S"
        /\ conns[c].unconfirmedReceivedIMessages = 0

\* check_seqno as the specification states it: n is sendCount when the
\* k-buffer is empty, else n lies in the cyclic range of the k-buffer's
\* numbers or is the number before the oldest
PassesCheckSeqno(con, n) ==
    LET kb == KBuffer(con)
        old == kb[1].seqNo
        new == kb[Len(kb)].seqNo
    IN  IF kb = << >>
        THEN n = con.sendCount
        ELSE InCyclicRange(n, old, new) \/ n = (old + SeqModulus - 1) % SeqModulus

\* a step in which a connection receives an I-frame whose N(S) is not
\* receiveCount, or an I- or S-frame whose N(R) fails check_seqno
SequenceError ==
    /\ lastOp' # lastOp
    /\ \/ /\ lastOp'.op = "recv_I"
          /\ \/ lastOp'.ns # conns[lastOp'.c].receiveCount
             \/ ~PassesCheckSeqno(conns[lastOp'.c], lastOp'.nr)
       \/ /\ lastOp'.op = "check_seqno"
          /\ ~PassesCheckSeqno(conns[lastOp'.c], lastOp'.seqNo)

\* C19: a received I-frame whose N(S) differs from receiveCount, or an I- or
\* S-frame whose N(R) fails check_seqno, closes the connection: isRunning is
\* cleared, receiveCount is not advanced, no ASDU is dispatched, and no
\* k-buffer entry is confirmed (the k-buffer and the queue keep their state)
C19_SequenceError ==
    [][ SequenceError =>
          LET c == lastOp'.c
          IN  /\ ~conns'[c].isRunning
              /\ conns'[c].receiveCount = conns[c].receiveCount
              /\ dispatched' = dispatched
              /\ KBuffer(conns'[c]) = KBuffer(conns[c])
              /\ conns'[c].oldestSentASDU = conns[c].oldestSentASDU
              /\ lowQ' = lowQ
              /\ UNCHANGED <<txCount, ctl>> ]_vars

\* C19 witness: an active connection with an unacknowledged I-frame in its
\* k-buffer was closed by an I-frame whose N(S) was not receiveCount and
\* whose N(R) would have acknowledged that I-frame
C19_Witness ==
    /\ lastOp.op = "recv_I"
    /\ ~lastOp.inSequence
    /\ lastOp.ns # conns[lastOp.c].receiveCount
    /\ ~conns[lastOp.c].isRunning
    /\ conns[lastOp.c].isActive
    /\ KBuffer(conns[lastOp.c]) # << >>
    /\ KBuffer(conns[lastOp.c])[1].seqNo = lastOp.nr

\* a step in which connection c runs handleTimeouts
TimeoutCheck(c) ==
    /\ lastOp' # lastOp
    /\ lastOp'.op = "timeouts"
    /\ lastOp'.c = c

\* connection c holds k' received I-frames, 0 < k' < w, that no frame it
\* wrote has acknowledged, and t2 seconds have passed since the first of
\* them arrived
T2Due(c) ==
    /\ 0 < UnackedReceived(c)
    /\ UnackedReceived(c) < conParameters.w
    /\ now - ctl[c].unackedSince >= conParameters.t2 * 1000

\* C14: T2 starts when the first I-frame that is not yet acknowledged
\* arrives and later I-frames do not move it; a timeout check at which t2
\* seconds have passed since then, with 0 < k' < w I-frames unacknowledged,
\* writes an S-frame with N(R) = receiveCount and resets
\* unconfirmedReceivedIMessages; a timeout check before that writes none
C14_T2 ==
    /\ [] ( \A c \in ConnIds :
              ( conns[c].isUsed /\ conns[c].isRunning /\ UnackedReceived(c) > 0 ) =>
                  /\ conns[c].timeoutT2Triggered
                  /\ conns[c].lastConfirmationTime = ctl[c].unackedSince )
    /\ [][ \A c \in ConnIds :
             TimeoutCheck(c) =>
               IF T2Due(c)
               THEN conns'[c].isRunning =>
                      /\ ctl'[c].sframes = ctl[c].sframes + 1
                      /\ ctl'[c].nr = conns[c].receiveCount
                      /\ conns'[c].receiveCount = conns[c].receiveCount
                      /\ conns'[c].unconfirmedReceivedIMessages = 0
                      /\ ~conns'[c].timeoutT2Triggered
               ELSE ctl'[c].sframes = ctl[c].sframes ]_vars

\* C14 witness: two I-frames arrived at different times, and the timeout
\* check t2 seconds after the first one wrote the S-frame with N(R) = 2
C14_Witness ==
    \E c \in ConnIds :
        /\ lastOp.op = "timeouts" /\ lastOp.c = c /\ lastOp.sframe
        /\ conns[c].isUsed /\ conns[c].isRunning
        /\ conns[c].receiveCount = 2
        /\ ctl[c].sframes = 1 /\ ctl[c].nr = 2
        /\ txCount[c] = 0
        /\ ctl[c].idleSince > ctl[c].unackedSince
        /\ now = ctl[c].unackedSince + conParameters.t2 * 1000
        /\ conns[c].unconfirmedReceivedIMessages = 0

\* the TESTFR_ACT frames connection c wrote after the last TESTFR_CON came in
Unanswered(c) == ctl[c].testfr - ctl[c].answered

\* connection c has handled no frame and written no TESTFR_ACT for more
\* than t3 seconds (T3 expires when the clock is past nextT3Timeout)
T3Due(c) == now - ctl[c].idleSince > conParameters.t3 * 1000

\* C15: T3 runs from the last frame handled; a timeout check after it
\* expired writes a TESTFR_ACT and restarts T3 while fewer than three
\* TESTFR_ACT are unanswered, and closes the connection without writing one
\* when three are (the fourth expiry of a peer that never answers); a
\* timeout check before the expiry writes none; a received TESTFR_CON sets
\* outstandingTestFRConMessages to 0
C15_T3 ==
    /\ [] ( \A c \in ConnIds :
              ( conns[c].isUsed /\ conns[c].isRunning ) =>
                  /\ conns[c].nextT3Timeout =
                         ctl[c].idleSince + conParameters.t3 * 1000
                  /\ conns[c].outstandingTestFRConMessages = Unanswered(c)
                  /\ Unanswered(c) <= 3 )
    /\ [][ \A c \in ConnIds :
             /\ TimeoutCheck(c) =>
                  IF T3Due(c)
                  THEN IF Unanswered(c) < 3
                       THEN /\ ~lastOp'.closeT3
                            /\ conns'[c].isRunning =>
                                 /\ ctl'[c].testfr = ctl[c].testfr + 1
                                 /\ ctl'[c].idleSince = now
                       ELSE /\ ~conns'[c].isRunning
                            /\ ctl'[c].testfr = ctl[c].testfr
                  ELSE /\ ctl'[c].testfr = ctl[c].testfr
                       /\ ~lastOp'.closeT3
             /\ ( conns[c].isUsed /\ ctl'[c].answered # ctl[c].answered ) =>
                  conns'[c].outstandingTestFRConMessages = 0 ]_vars

\* C15 witness: the peer answered none of three TESTFR_ACT frames, and the
\* timeout check after the fourth expiry of T3 closed the connection
C15_Witness ==
    \E c \in ConnIds :
        /\ lastOp.op = "timeouts" /\ lastOp.c = c /\ lastOp.closeT3
        /\ conns[c].isUsed /\ ~conns[c].isRunning
        /\ ctl[c].testfr = 3 /\ ctl[c].answered = 0
        /\ ctl[c].last = "TESTFR_ACT"
        /\ now - ctl[c].idleSince > conParameters.t3 * 1000

\* the k-buffer of connection c is not empty and t1 seconds or more have
\* passed since its oldest I-frame was sent
T1Due(c) ==
    /\ KBuffer(conns[c]) # << >>
    /\ now - KBuffer(conns[c])[1].sentTime >= conParameters.t1 * 1000

\* C16: a timeout check closes the connection for T1 exactly when the
\* k-buffer is not empty and at least t1 seconds have passed since the
\* oldest unacknowledged I-frame was sent; a connection whose I-frames are
\* all acknowledged before that is not closed by T1
C16_T1 ==
    [][ \A c \in ConnIds :
          TimeoutCheck(c) =>
            /\ lastOp'.closeT1 <=> T1Due(c)
            /\ T1Due(c) => ~conns'[c].isRunning
            /\ ( ~T1Due(c) /\ ~T3Due(c) /\ UnackedReceived(c) = 0 ) =>
                 conns'[c].isRunning ]_vars

\* C16 witness: a timeout check exactly t1 seconds after the oldest
\* unacknowledged I-frame was sent closed the connection
C16_Witness ==
    \E c \in ConnIds :
        /\ lastOp.op = "timeouts" /\ lastOp.c = c /\ lastOp.closeT1
        /\ ~lastOp.closeT3
        /\ conns[c].isUsed /\ ~conns[c].isRunning
        /\ KBuffer(conns[c]) # << >>
        /\ now - KBuffer(conns[c])[1].sentTime = conParameters.t1 * 1000

\* ASDU a was handed to CS104_Slave_enqueueASDU
Enqueued(a) == a <= Len(enqLog[1])

\* ASDU a was written to the socket of connection c as an I-frame
SentOn(c, a) == \E i \in 1 .. Len(wire[c]) : wire[c][i].asdu = a

\* connection c does not stay active, or its window is full
Released(c) ==
    \/ ~conns[c].isUsed \/ ~conns[c].isRunning \/ ~conns[c].isActive
    \/ isSentBufferFull(conns[c])

\* a later enqueue found the low-priority queue full and evicted an entry
Overflowed == Len(LiveAsdus(lowQ[1])) < Len(enqLog[1])

\* what holds of the handshake and of the frames in every state and step:
\* STARTDT_ACT is answered with STARTDT_CON and activates the connection,
\* the first I-frame of a connection carries N(S) = 0 and N(R) = 0 (no
\* I-frame was received), and no ASDU is written twice to one connection
HandshakeSafety ==
    /\ [][ \A c \in ConnIds :
             ( pc[c] = "activate" /\ pc'[c] = "idle" /\ conns'[c].isRunning ) =>
               /\ conns'[c].isActive
               /\ ctl'[c].last = "STARTDT_CON" ]_vars
    /\ [] ( \A c \in ConnIds :
              /\ txCount[c] = 1 =>
                   lastFrame[c].ns = 0 /\ lastFrame[c].nr = 0
              /\ \A i, j \in 1 .. Len(wire[c]) :
                   i # j => wire[c][i].asdu # wire[c][j].asdu )

C18_ActiveOnly ==
    [][ \A c \in ConnIds :
          ( conns[c].isUsed /\ txCount'[c] = txCount[c] + 1 ) =>
            conns[c].isActive ]_vars

\* the place of a semaphore in the order openConnectionsLock, queue locks,
\* sentASDUsLock
ClaimedRank(l) ==
    CASE l.lock = "openConnectionsLock" -> 1
      [] l.lock = "sentASDUsLock" -> 3
      [] OTHER -> 2

\* the place of a semaphore in the order openConnectionsLock, sentASDUsLock,
\* queue locks
NestingRank(l) ==
    CASE l.lock = "openConnectionsLock" -> 1
      [] l.lock = "sentASDUsLock" -> 2
      [] OTHER -> 3

\* C20: every thread acquires the locks in the order openConnectionsLock,
\* queue locks, sentASDUsLock: no thread requests a queue lock while holding
\* sentASDUsLock, and none requests openConnectionsLock while holding a
\* queue lock or sentASDUsLock
C20_LockOrder ==
    \A t \in Threads : \A l \in Requests(t) : \A h \in Holding(t) :
        ClaimedRank(h) <= ClaimedRank(l)

\* C20, with the k-buffer lock before the queue locks: every thread acquires
\* the locks in the order openConnectionsLock, sentASDUsLock, queue locks: no
\* thread requests sentASDUsLock while holding a queue lock, and none
\* requests openConnectionsLock while holding a queue lock or sentASDUsLock
C20_LockOrderKBufferFirst ==
    \A t \in Threads : \A l \in Requests(t) : \A h \in Holding(t) :
        NestingRank(h) <= NestingRank(l)

\* a connection thread inside sendNextLowPriorityASDU or checkSequenceNumber
\* holds sentASDUsLock and, taken after it, the lock of its queue, while
\* another thread waits for that queue's lock
C20_Witness ==
    \E t \in ConnIds : \E u \in Threads \ {t} :
        /\ locks[t].holding =
             << SentASDUsLock(t), MessageQueueLock(conns[t].lowPrioQueue) >>
        /\ Requests(u) = { MessageQueueLock(conns[t].lowPrioQueue) }

\* the number of live entries of queue q that hold ASDU a
Copies(q, a) ==
    Cardinality({ i \in 1 .. Len(LiveAsdus(q)) : LiveAsdus(q)[i] = a })

\* C21: one call of enqueueASDU appends the ASDU exactly once to the shared
\* low queue in mode SINGLE_REDUNDANCY_GROUP, exactly once to the low queue
\* of every redundancy group in mode MULTIPLE_REDUNDANCY_GROUPS, and in mode
\* CONNECTION_IS_REDUNDANCY_GROUP exactly once to the low queue of every
\* connected session and to no session that is not connected
C21_Dispatch ==
    [][ enqLog'[1] # enqLog[1] =>
          LET a == Len(enqLog'[1])
          IN  /\ serverMode = SINGLE_REDUNDANCY_GROUP =>
                   /\ Copies(lowQ'[1], a) = 1
                   /\ \A q \in QueueIds \ {1} : lowQ'[q] = lowQ[q]
              /\ serverMode = MULTIPLE_REDUNDANCY_GROUPS =>
                   \A q \in 1 .. Len(slave.redundancyGroups) :
                     Copies(lowQ'[q], a) = 1
              /\ serverMode = CONNECTION_IS_REDUNDANCY_GROUP =>
                   \A c \in ConnIds :
                     IF conns[c].isUsed
                     THEN Copies(lowQ'[conns[c].lowPrioQueue], a) = 1
                     ELSE lowQ'[conns[c].lowPrioQueue] =
                            lowQ[conns[c].lowPrioQueue] ]_vars

\* the group the claim binds a peer with the address string ipAddrStr to:
\* the first group with an allowed client made from that address, else a
\* group without allowed clients, else none
ClaimedGroup(redundancyGroups, ipAddrStr, group) ==
    LET listing == { g \in 1 .. Len(redundancyGroups) :
                       /\ redundancyGroups[g].allowedClients # NoAllowedClients
                       /\ \E i \in 1 .. Len(redundancyGroups[g].allowedClients) :
                            redundancyGroups[g].allowedClients[i].text = ipAddrStr }
        catchAll == { g \in 1 .. Len(redundancyGroups) :
                        redundancyGroups[g].allowedClients = NoAllowedClients }
    IN  IF listing # {}
        THEN group \in listing /\ \A g \in listing : group <= g
        ELSE IF catchAll # {}
        THEN group \in catchAll
        ELSE group = NULL

\* C22: in mode MULTIPLE_REDUNDANCY_GROUPS a peer that connects is bound to
\* the first group in list order whose allowed clients contain the peer's
\* address, else to a catch-all group wherever it stands in the list, and is
\* rejected otherwise
C22_GroupSelection ==
    [][ lastOp'.op = "connect" /\ lastOp' # lastOp =>
          ClaimedGroup(slave.redundancyGroups, lastOp'.ip, lastOp'.group) ]_vars

\* C23: a peer that matches no group while there is no catch-all group has
\* its socket closed, no slot is marked used, openConnections is unchanged
\* and no connection event is delivered, in the threaded acceptor as well as
\* in the threadless one
C23_Mismatch ==
    [][ lastOp'.op = "connect" /\ lastOp'.group = NULL /\ lastOp' # lastOp =>
          /\ lastOp'.socketDestroyed
          /\ \A c \in ConnIds : conns'[c].isUsed = conns[c].isUsed
          /\ slave'.openConnections = slave.openConnections
          /\ ctl' = ctl ]_vars

\* C24: in mode MULTIPLE_REDUNDANCY_GROUPS the activation of a connection
\* deactivates the other connections of its redundancy group and leaves
\* isActive of the connections of every other group unchanged; in mode
\* CONNECTION_IS_REDUNDANCY_GROUP it leaves isActive of every other
\* connection unchanged
C24_GroupScoped ==
    [][ \A c \in ConnIds :
          pc'[c] # pc[c] =>
            \A i \in ConnIds \ {c} :
              /\ serverMode = CONNECTION_IS_REDUNDANCY_GROUP =>
                   conns'[i].isActive = conns[i].isActive
              /\ serverMode = MULTIPLE_REDUNDANCY_GROUPS =>
                   IF conns[i].redundancyGroup = conns[c].redundancyGroup
                   THEN pc'[c] = "activate" => ~conns'[i].isActive
                   ELSE conns'[i].isActive = conns[i].isActive ]_vars

\* a connection is being activated in mode MULTIPLE_REDUNDANCY_GROUPS while
\* a connection of another redundancy group is active
C24_Witness ==
    \E c \in ConnIds, i \in ConnIds :
      /\ serverMode = MULTIPLE_REDUNDANCY_GROUPS
      /\ pc[c] = "activate"
      /\ conns[c].isUsed /\ conns[i].isUsed /\ conns[i].isActive
      /\ conns[i].redundancyGroup # conns[c].redundancyGroup

\* the payload of the oldest live entry of q in state
\* WAITING_FOR_TRANSMISSION, Garbled if there is none
OldestWaiting(q) ==
    LET live == LiveEntries(q)
        waiting == { i \in 1 .. Len(live) :
                       /\ live[i] # NULL
                       /\ q.buffer[live[i]].entryState = WAITING_FOR_TRANSMISSION }
    IN  IF waiting = {}
        THEN Garbled
        ELSE q.buffer[live[CHOOSE i \in waiting : \A j \in waiting : i <= j]].asdu

\* C25: STOPDT_ACT makes the connection inactive and is answered with
\* STOPDT_CON; it leaves the low-priority queue and sendCount as they are;
\* the activation that follows leaves them as they are too, sendCount
\* changes only when an I-frame is sent, and the I-frame sent after the
\* activation carries the oldest entry waiting for transmission with
\* N(S) = sendCount
C25_StopDT ==
    [][ \A c \in ConnIds :
          /\ ctl'[c].stopped # ctl[c].stopped /\ ctl'[c].stopped # NULL =>
               /\ ~conns'[c].isActive
               /\ ctl'[c].last = "STOPDT_CON"
               /\ lowQ' = lowQ
               /\ conns'[c].sendCount = conns[c].sendCount
          /\ ctl[c].stopped # NULL /\ ctl'[c].stopped # NULL /\ pc'[c] # pc[c] =>
               /\ lowQ' = lowQ
               /\ conns'[c].sendCount = conns[c].sendCount
          /\ /\ ctl[c].stopped # NULL /\ ctl'[c].stopped # NULL
             /\ conns'[c].sendCount # conns[c].sendCount
             => Len(wire'[c]) > Len(wire[c])
          /\ ctl[c].stopped # NULL /\ Len(wire'[c]) > Len(wire[c]) =>
               /\ wire'[c][Len(wire'[c])].asdu =
                    OldestWaiting(lowQ[conns[c].lowPrioQueue])
               /\ wire'[c][Len(wire'[c])].ns = conns[c].sendCount ]_vars

\* a connection that sent I-frames, was stopped and activated again has sent
\* the next I-frame with the N(S) that followed the last one before STOPDT_ACT
C25_Witness ==
    \E c \in ConnIds :
      /\ ctl[c].stopped # NULL /\ ctl[c].stopped > 0
      /\ conns[c].isActive
      /\ ctl[c].last = "STARTDT_CON"
      /\ wire[c] # << >>
      /\ wire[c][Len(wire[c])].ns = ctl[c].stopped

\* the offset of the oldest live entry of q in state
\* WAITING_FOR_TRANSMISSION, NULL if there is none
OldestWaitingEntry(q) ==
    LET live == LiveEntries(q)
        waiting == { i \in 1 .. Len(live) :
                       /\ live[i] # NULL
                       /\ q.buffer[live[i]].entryState = WAITING_FOR_TRANSMISSION }
    IN  IF waiting = {}
        THEN NULL
        ELSE live[CHOOSE i \in waiting : \A j \in waiting : i <= j]

\* C26: MessageQueue_getNextWaitingASDU returns the oldest entry between
\* firstEntry and lastEntry that waits for transmission and sets it, and
\* nothing else, to SENT_BUT_NOT_CONFIRMED; it returns no entry if and only
\* if none waits, so that the entries are handed out in the order in which
\* they were enqueued
C26_BacklogOrder ==
    [][ lastOp'.op = "next_waiting" /\ (lastOp' # lastOp \/ lowQ' # lowQ) =>
          LET q == lowQ[1]
              e == OldestWaitingEntry(q)
          IN  IF e = NULL
              THEN lastOp'.asdu = Garbled /\ lowQ' = lowQ /\ held' = held
              ELSE /\ lastOp'.asdu = q.buffer[e].asdu
                   /\ held'[Len(held')].queueEntry = e
                   /\ lowQ'[1] = [ q EXCEPT !.buffer[e].entryState =
                                     SENT_BUT_NOT_CONFIRMED ] ]_vars

\* C27: a connection whose isRunning is false is removed with exactly one
\* CS104_CON_EVENT_CONNECTION_CLOSED for its session: the event is delivered
\* in the step in which the slot returns to isUsed = false and
\* openConnections decreases by one, and in no other step; the slot is then
\* allocated to a new peer with sendCount = 0, receiveCount = 0, an empty
\* k-buffer and isActive = false; a used connection that is not running is
\* removed in this way by its thread, or by the next CS104_Slave_tick of a
\* threadless slave that still exists
C27_Close ==
    /\ [][ /\ slave'.openConnections = Cardinality({ c \in ConnIds : conns'[c].isUsed })
           /\ \A c \in ConnIds :
                /\ conns[c].isUsed /\ ~conns'[c].isUsed =>
                     /\ ~conns[c].isRunning
                     /\ ctl[c].closed = 0 /\ ctl'[c].closed = 1
                     /\ slave'.openConnections = slave.openConnections - 1
                /\ conns'[c].isUsed = conns[c].isUsed =>
                     ctl'[c].closed = ctl[c].closed
                /\ conns'[c].isUsed => ctl'[c].closed = 0
                /\ ~conns[c].isUsed /\ conns'[c].isUsed =>
                     /\ conns'[c].sendCount = 0
                     /\ conns'[c].receiveCount = 0
                     /\ KBuffer(conns'[c]) = << >>
                     /\ ~conns'[c].isActive ]_vars
    /\ \A c \in ConnIds :
         ( conns[c].isUsed /\ ~conns[c].isRunning ) ~>
           ( ~conns[c].isUsed \/ slave.caller = "destroyed" )

\* the first slot is allocated for the second time, after a session that was
\* active and sent and received I-frames and whose end was reported once
C27_Witness ==
    /\ accepted = 2
    /\ conns[1].isUsed /\ ~conns[2].isUsed
    /\ wire[2] = << >> /\ ctl[2].closed = 0
    /\ everSent > 0
    /\ conns[1].sendCount = 0 /\ conns[1].receiveCount = 0
    /\ lastOp.op = "recv_I"

\* C28: when CS104_Slave_stop has returned in threaded mode, no connection
\* worker is running and openConnections is 0
C28_StopJoins ==
    slave.caller = "stopped" /\ ~slave.isThreadlessMode =>
      /\ slave.openConnections = 0
      /\ \A c \in ConnIds : ~conns[c].isUsed

\* the bytes of the APDU in progress after a call of receiveMessage: those
\* the buffer held before the call and those the call read
Accumulated ==
    SubSeq(lastOp.before.recvBuffer, 1, lastOp.before.recvBufPos) \o lastOp.read

\* C29: receiveMessage returns 0 and keeps the bytes accumulated so far in
\* recvBuffer and recvBufPos whenever the socket has delivered only a part
\* of an APDU (nothing, the start byte only, an incomplete remainder), a
\* later call continues the same APDU and returns its full size once it is
\* complete, and -1 is returned only when a read failed or the start byte is
\* not 0x68
C29_PartialReads ==
    lastOp.op = "receiveMessage" =>
      LET self     == rx[lastOp.con]
          n        == Len(Accumulated)
          complete == n >= 2 /\ n = Accumulated[2] + 2
          badStart == n >= 1 /\ Accumulated[1] # START_BYTE
      IN  /\ lastOp.before.socket = lastOp.read \o self.socket
          /\ lastOp.ret = -1 <=> ( lastOp.error \/ badStart )
          /\ lastOp.ret = 0 =>
               /\ ~complete
               /\ self.recvBufPos = n
               /\ SubSeq(self.recvBuffer, 1, n) = Accumulated
          /\ lastOp.ret > 0 =>
               /\ complete
               /\ lastOp.ret = n
               /\ SubSeq(self.recvBuffer, 1, n) = Accumulated

\* the sent time of the oldest I-frame in the k-buffer of connection con
OldestSentTime(con) == con.sentASDUs[con.oldestSentASDU].sentTime

\* C30: a run of handleTimeouts that finds lastConfirmationTime (with
\* I-frames unconfirmed) or the sent time of the oldest I-frame of the
\* k-buffer later than the current time sets that time to the current time
\* and does not close the connection for it; so after the clock was set back
\* an I-frame sent before is still timed out t1 after the new time, and the
\* S-frame is still written t2 after the time the run stored
C30_ClockRegression ==
    [][ \A c \in ConnIds :
          ( lastOp' # lastOp /\ lastOp'.op = "timeouts" /\ lastOp'.c = c ) =>
            /\ /\ conns[c].unconfirmedReceivedIMessages > 0
               /\ conns[c].lastConfirmationTime # UINT64_MAX
               /\ conns[c].lastConfirmationTime > now
               => conns'[c].lastConfirmationTime = now
            /\ /\ conns[c].oldestSentASDU # NoIndex
               /\ OldestSentTime(conns[c]) > now
               => /\ OldestSentTime(conns'[c]) = now
                  /\ ~lastOp'.closeT1
            /\ /\ conns[c].oldestSentASDU # NoIndex
               /\ ctl[c].clockStep # NULL
               /\ OldestSentTime(conns[c]) > ctl[c].clockStep
               /\ now >= ctl[c].clockStep + conParameters.t1 * 1000
               => lastOp'.closeT1
            /\ /\ conns[c].unconfirmedReceivedIMessages > 0
               /\ conns[c].lastConfirmationTime <= now
               /\ now - conns[c].lastConfirmationTime >= conParameters.t2 * 1000
               => lastOp'.sframe \/ ~conns'[c].isRunning ]_vars

\* the sources of the ASDUs handed to sendASDU in the last pass of
\* sendWaitingASDUs
SentSources == [ i \in 1 .. Len(lastOp.sent) |-> lastOp.sent[i].src ]

\* C31: in one pass of sendWaitingASDUs high-priority ASDUs are sent first,
\* until the high-priority queue is empty, the k-buffer is full or a write
\* fails; a low-priority ASDU is sent only in a pass that has emptied the
\* high-priority queue, as the last ASDU of the pass, and at most one
C31_DrainOrder ==
    lastOp.op = "drain" =>
      LET n == Len(lastOp.sent)
          lows == { i \in 1 .. n : SentSources[i] = "low" }
          failed == n > 0 /\ lastOp.sent[n].ns = NULL
      IN  /\ Cardinality(lows) <= 1
          /\ lows \subseteq { n }
          /\ lows # {} => lastOp.emptied /\ lastOp.high = 0
          /\ \A i \in 1 .. n - 1 : lastOp.sent[i].ns # NULL
          /\ lastOp.emptied => lastOp.high = 0
          /\ ~lastOp.emptied => lastOp.full \/ failed

\* a pass has sent a high-priority ASDU and then a low-priority one, and
\* left another low-priority ASDU waiting
C31_Witness ==
    /\ lastOp.op = "drain"
    /\ SentSources = << "high", "low" >>
    /\ lastOp.waiting > 0
    /\ conns[lastOp.c].isRunning

\* C32: a pass of sendWaitingASDUs that ends with an empty high-priority
\* queue returns true iff the low-priority queue still holds an entry in
\* state WAITING_FOR_TRANSMISSION; once every entry has been sent it
\* returns false
C32_DrainResult ==
    lastOp.op = "drain" /\ lastOp.emptied =>
      ( lastOp.ret <=> lastOp.waiting > 0 )

\* C38: the responses a handler submits on a connection with
\* IMasterConnection_sendASDU (the n-th one is ASDU n) are written to the
\* socket in the order of their submission
C38_ResponseOrder ==
    \A c \in ConnIds :
      \A i, j \in 1 .. Len(ctl[c].responses) :
        i < j => ctl[c].responses[i] < ctl[c].responses[j]

\* C33: with maxOpenConnections = m > 0 openConnections never exceeds m and
\* a peer that arrives while openConnections = m is given no slot; with
\* m <= 0 a peer that arrives while every slot of the pool is used is given
\* no slot and its socket is destroyed, by serverThread as well as by
\* handleConnectionsThreadless
C33_ConnectionLimit ==
    /\ slave.maxOpenConnections > 0 =>
         slave.openConnections <= slave.maxOpenConnections
    /\ lastOp.op = "arrive" /\ lastOp.max > 0 /\ lastOp.open = lastOp.max =>
         lastOp.connection = NULL
    /\ lastOp.op = "arrive" /\ lastOp.max <= 0
                            /\ lastOp.used = MaxClientConnections =>
         /\ lastOp.connection = NULL
         /\ lastOp.socketDestroyed

\* C34: a received frame that starts with 0x68 and has a length byte
\* smaller than 4 is not handled as an I-, S- or U-format message: the
\* connection is closed, no confirmation is written and isActive, the
\* sequence counters, the k-buffer and T3 of the connection stay as they
\* were
C34_BadLength ==
    lastOp.op = "frame" /\ lastOp.msgSize > 0 /\ lastOp.length < 4 =>
      /\ ~lastOp.after.isRunning
      /\ lastOp.wrote = "none"
      /\ lastOp.format \notin { "TESTFR_ACT", "STARTDT_ACT", "STOPDT_ACT",
                                "TESTFR_CON", "S", "unknown" }
      /\ [ lastOp.after EXCEPT !.isRunning = TRUE ] = lastOp.before

\* the semaphores of the slave
Semaphores ==
    { OpenConnectionsLock }
    \cup { SentASDUsLock(c) : c \in ConnIds }
    \cup { MessageQueueLock(q) : q \in QueueIds \cup ConnIds }
    \cup { HighPriorityQueueLock(q) : q \in QueueIds \cup ConnIds }

\* the threads of D wait for semaphores that threads of D hold
WaitCycle(D) ==
    \A t \in D : \E l \in Requests(t) : \E u \in D : l \in Holding(u)

UsedSlots(cs) == { c \in ConnIds : cs[c].isUsed }

C37_AcceptKeepsResponses ==
    [][ accepted' # accepted
        /\ serverMode \in { SINGLE_REDUNDANCY_GROUP, MULTIPLE_REDUNDANCY_GROUPS } =>
          \A c \in ConnIds :
            conns[c].isUsed /\ conns[c].isActive =>
              highQ'[conns[c].highPrioQueue] = highQ[conns[c].highPrioQueue] ]_vars

\* MasterConnection_activate delivers CS104_CON_EVENT_ACTIVATED for
\* connection c in the step: isActive was false and is set
EventActivated(c) == ~conns[c].isActive /\ conns'[c].isActive

\* MasterConnection_deactivate delivers CS104_CON_EVENT_DEACTIVATED for
\* connection c in the step: isActive was set and is cleared
\* (MasterConnection_init, which clears it for a new session, delivers none)
EventDeactivated(c) ==
    /\ conns[c].isActive /\ ~conns'[c].isActive
    /\ ~( ~conns[c].isUsed /\ conns'[c].isUsed )

\* CS104_CON_EVENT_CONNECTION_CLOSED is delivered for connection c in the
\* step
EventClosed(c) == ctl'[c].closed = ctl[c].closed + 1

\* C39: the events of a session start with CONNECTION_OPENED (delivered
\* when the slot is taken into use) and end with CONNECTION_CLOSED:
\* ACTIVATED and DEACTIVATED, which alternate because each is delivered only
\* when isActive changes, and CONNECTION_CLOSED are delivered only for a
\* session that is open and whose CONNECTION_CLOSED was not yet delivered
C39_EventOrder ==
    [][ \A c \in ConnIds :
          EventActivated(c) \/ EventDeactivated(c) \/ EventClosed(c) =>
            conns[c].isUsed /\ ctl[c].closed = 0 ]_vars

\* the states of the live entries of the queue that hold ASDU a
EntryStates(q, a) ==
    LET live == LiveEntries(q)
    IN  { q.buffer[live[i]].entryState :
            i \in { j \in 1 .. Len(live) :
                      live[j] # NULL /\ q.buffer[live[j]].asdu = a } }

\* the ASDUs of the I-frames in w
AsdusOnWire(w) == { w[i].asdu : i \in 1 .. Len(w) }

\* C40: on a low-priority queue that connections share, an entry that
\* sendNextLowPriorityASDU transmits was WAITING_FOR_TRANSMISSION when
\* MessageQueue_getNextWaitingASDU handed it out and is
\* SENT_BUT_NOT_CONFIRMED afterwards, so that it is handed to no second
\* connection before it is set back to waiting, and only one connection
\* transmits in the step; this also when the connection was deactivated
\* by the activation of another one while its drain pass was under way
C40_SingleOwner ==
    [][ \A c \in ConnIds :
          Len(wire'[c]) = Len(wire[c]) + 1 =>
            LET a == wire'[c][Len(wire'[c])].asdu
                q == conns[c].lowPrioQueue
            IN  /\ EntryStates(lowQ[q], a) = { WAITING_FOR_TRANSMISSION }
                /\ EntryStates(lowQ'[q], a) = { SENT_BUT_NOT_CONFIRMED }
                /\ \A d \in ConnIds \ {c} : wire'[d] = wire[d] ]_vars

\* C40 witness: connection d was activated while the drain pass of
\* connection c was under way; d transmitted an entry, then c, deactivated,
\* transmitted the next one, and both entries are still unconfirmed
C40_Witness ==
    \E c \in ConnIds : \E d \in ConnIds \ {c} :
        /\ conns[c].isUsed /\ conns[d].isUsed
        /\ ~conns[c].isActive /\ conns[d].isActive
        /\ conns[c].lowPrioQueue = conns[d].lowPrioQueue
        /\ AsdusOnWire(wire[d]) = { 1 } /\ AsdusOnWire(wire[c]) = { 2 }
        /\ EntryStates(lowQ[conns[c].lowPrioQueue], 1) = { SENT_BUT_NOT_CONFIRMED }
        /\ EntryStates(lowQ[conns[c].lowPrioQueue], 2) = { SENT_BUT_NOT_CONFIRMED }

=============================================================================
